---- MODULE Spec2Model ----
(***************************************************************************)
(* Model of the nvv-mcp geometry core: WKT reprojection from SWEREF99 TM   *)
(* (EPSG:3006) to WGS84 (EPSG:4326), bounding-box extraction/combination   *)
(* and the extent resolution strategy (bulk endpoint, then client-side     *)
(* fallback with bounded concurrency) of the upstream clients.             *)
(*                                                                         *)
(* A WKT string is a sequence of lexical tokens.  A word token carries its *)
(* text (keyword, parenthesis, comma, blank); a number token carries a     *)
(* decimal numeral n / 10^d printed with exactly d decimals.               *)
(* A JavaScript number is a decimal value [inf, n, d] (inf = 1 / -1 for    *)
(* +Infinity / -Infinity) kept in canonical form (no trailing zero).       *)
(***************************************************************************)
EXTENDS Integers, Sequences, FiniteSets, TLC

\* ------------------------------------------------------------------------
\* Bounds of the model
\* ------------------------------------------------------------------------
MaxIds == 3
MaxCalls == 2
MaxConcurrentIds == 1
MaxToolCalls == 2
MaxConcurrentArgs == 1

\* ------------------------------------------------------------------------
\* Tokens and numbers
\* ------------------------------------------------------------------------
W(s) == [k |-> "w", s |-> s, n |-> 0, d |-> 0]
Num(n, d) == [k |-> "n", s |-> "", n |-> n, d |-> d]

Pow10(d) == CASE d = 0 -> 1 [] d = 1 -> 10 [] d = 2 -> 100 [] d = 3 -> 1000
              [] d = 4 -> 10000 [] d = 5 -> 100000 [] d = 6 -> 1000000
              [] OTHER -> 10000000

Infinity == [inf |-> 1, n |-> 0, d |-> 0]
NegInfinity == [inf |-> -1, n |-> 0, d |-> 0]

RECURSIVE Canon(_, _)
Canon(n, d) == IF d > 0 /\ n % 10 = 0 THEN Canon(n \div 10, d - 1)
               ELSE [inf |-> 0, n |-> n, d |-> d]

\* parseFloat of the text of a number token
parseFloat(tok) == Canon(tok.n, tok.d)

MaxOf(i, j) == IF i >= j THEN i ELSE j

\* a <= b on JavaScript numbers
NumLE(a, b) ==
  IF a.inf # 0 \/ b.inf # 0 THEN a.inf <= b.inf
  ELSE LET D == MaxOf(a.d, b.d)
       IN  a.n * Pow10(D - a.d) <= b.n * Pow10(D - b.d)

MathMin(a, b) == IF NumLE(a, b) THEN a ELSE b
MathMax(a, b) == IF NumLE(a, b) THEN b ELSE a

\* `${x}` : the shortest decimal text of a finite number
NumToString(x) == IF x.inf = 1 THEN W("Infinity")
                  ELSE IF x.inf = -1 THEN W("-Infinity")
                  ELSE Num(x.n, x.d)

\* ------------------------------------------------------------------------
\* Projection converter (src/lib/coordinates.ts)
\* ------------------------------------------------------------------------
CRS_SWEREF99TM == "EPSG:3006"
CRS_WGS84 == "EPSG:4326"

\* The fixed projection definition registered once at load time.
Proj4Defs == "+proj=utm +zone=33 +ellps=GRS80 +towgs84=0,0,0,0,0,0,0 +units=m +no_defs +type=crs"

\* proj4('EPSG:3006', 'EPSG:4326', [x, y]): the inverse UTM zone 33 / GRS80
\* projection, tabulated on a sample grid of eastings {500000, 600000,
\* 700000} and northings {6500000, 6600000, 6700000} (metres); the result
\* is in units of 1e-7 degree (truncated), longitude then latitude.
Proj4Table(x, y) ==
  CASE x = 500000 /\ y = 6500000 -> <<149999999, 586402969>>
    [] x = 500000 /\ y = 6600000 -> <<149999999, 595383491>>
    [] x = 500000 /\ y = 6700000 -> <<149999999, 604362771>>
    [] x = 600000 /\ y = 6500000 -> <<167221932, 586287710>>
    [] x = 600000 /\ y = 6600000 -> <<167677653, 595264083>>
    [] x = 600000 /\ y = 6700000 -> <<168162712, 604238987>>
    [] x = 700000 /\ y = 6500000 -> <<184416996, 585942300>>
    [] x = 700000 /\ y = 6600000 -> <<185326020, 594906256>>
    [] x = 700000 /\ y = 6700000 -> <<186293416, 603868067>>

\* proj4(from, to, [x, y]) of the proj4 library, for the one pair of names
\* the converter passes: the projection of the point from the national grid
\* to WGS84.
proj4(from, to, xy) == Proj4Table(xy[1], xy[2])

\* sweref99ToWgs84({x, y}) : {longitude, latitude}, unrounded (1e-7 degree)
sweref99ToWgs84(p) ==
  LET result == proj4(CRS_SWEREF99TM, CRS_WGS84, <<p.x.n, p.y.n>>)
  IN  [longitude |-> result[1], latitude |-> result[2]]

\* Number.prototype.toFixed(6) of a value given in 1e-7 degree: round half
\* away from zero to 6 decimals, printed with exactly 6 decimals.
toFixed6(v) == IF v >= 0 THEN Num((v + 5) \div 10, 6)
               ELSE Num(0 - ((5 - v) \div 10), 6)

\* ------------------------------------------------------------------------
\* WKT utilities (src/lib/wkt-utils.ts)
\* ------------------------------------------------------------------------
IsNum(tok) == tok.k = "n"
IsSpace(tok) == tok.k = "w" /\ tok.s = " "

\* coordPattern /(-?\d+\.?\d*)\s+(-?\d+\.?\d*)/ matches at token i
PairAt(wkt, i) == /\ i + 2 <= Len(wkt)
                  /\ IsNum(wkt[i]) /\ IsSpace(wkt[i + 1]) /\ IsNum(wkt[i + 2])

\* The successive matches of the global pattern, scanned left to right:
\* the positions at which a coordinate pair starts.
RECURSIVE Matches(_, _)
Matches(wkt, i) ==
  IF i > Len(wkt) THEN <<>>
  ELSE IF PairAt(wkt, i) THEN <<i>> \o Matches(wkt, i + 3)
  ELSE Matches(wkt, i + 1)

EmptyGeometryError == "No coordinates found in WKT string"
EmptyInputError == "Cannot combine empty array of bounding boxes"
InvalidWktError == "Invalid WKT response"
ExtentTransportError == "Upstream request failed: extentAsWkt"
WktTransportError == "Upstream request failed: wkt"

Ok(v) == [ok |-> TRUE, v |-> v, err |-> ""]
Throw(e) == [ok |-> FALSE, v |-> <<>>, err |-> e]

RECURSIVE ExtractLoop(_, _, _)
ExtractLoop(wkt, ms, acc) ==
  IF ms = <<>> THEN acc
  ELSE LET x == parseFloat(wkt[Head(ms)])
           y == parseFloat(wkt[Head(ms) + 2])
       IN  ExtractLoop(wkt, Tail(ms),
             [minX |-> MathMin(acc.minX, x), maxX |-> MathMax(acc.maxX, x),
              minY |-> MathMin(acc.minY, y), maxY |-> MathMax(acc.maxY, y)])

\* Mutant of extractBoundingBoxFromWkt: the bounds start at 0 instead of
\* +Infinity / -Infinity.
extractBoundingBoxFromWkt_zeroInit(wkt) ==
  LET ms == Matches(wkt, 1)
      zero == Canon(0, 0)
      box == ExtractLoop(wkt, ms, [minX |-> zero, maxX |-> zero,
                                   minY |-> zero, maxY |-> zero])
  IN  IF Len(ms) = 0 THEN Throw(EmptyGeometryError) ELSE Ok(box)

\* Mutant of extractBoundingBoxFromWkt: the matchCount check is left out and
\* the initial bounds are returned when nothing matched.
extractBoundingBoxFromWkt_noThrow(wkt) ==
  Ok(ExtractLoop(wkt, Matches(wkt, 1), [minX |-> Infinity, maxX |-> NegInfinity,
                                        minY |-> Infinity, maxY |-> NegInfinity]))

\* Mutant of extractBoundingBoxFromWkt: Math.min and Math.max are exchanged.
extractBoundingBoxFromWkt_swapped(wkt) ==
  LET ms == Matches(wkt, 1)
      box == ExtractLoop(wkt, ms, [minX |-> NegInfinity, maxX |-> Infinity,
                                   minY |-> NegInfinity, maxY |-> Infinity])
  IN  IF Len(ms) = 0 THEN Throw(EmptyGeometryError)
      ELSE Ok([minX |-> box.maxX, maxX |-> box.minX,
               minY |-> box.maxY, maxY |-> box.minY])

\* extractBoundingBoxFromWkt(wkt): Ok(box) or a thrown error
extractBoundingBoxFromWkt(wkt) ==
  LET ms == Matches(wkt, 1)
      box == ExtractLoop(wkt, ms, [minX |-> Infinity, maxX |-> NegInfinity,
                                   minY |-> Infinity, maxY |-> NegInfinity])
  IN  IF Len(ms) = 0 THEN Throw(EmptyGeometryError) ELSE Ok(box)

\* Mutant of CombineTwo: the right edge is taken from the box folded last.
CombineTwo_lastMaxX(combined, box) ==
  [minX |-> MathMin(combined.minX, box.minX),
   maxX |-> box.maxX,
   minY |-> MathMin(combined.minY, box.minY),
   maxY |-> MathMax(combined.maxY, box.maxY)]

\* Mutant of CombineTwo: the left edge is the greatest of the left edges.
CombineTwo_innerMinX(combined, box) ==
  [minX |-> MathMax(combined.minX, box.minX),
   maxX |-> MathMax(combined.maxX, box.maxX),
   minY |-> MathMin(combined.minY, box.minY),
   maxY |-> MathMax(combined.maxY, box.maxY)]

\* Mutant of CombineTwo: the lower edge of the accumulator is kept.
CombineTwo_keepMinY(combined, box) ==
  [minX |-> MathMin(combined.minX, box.minX),
   maxX |-> MathMax(combined.maxX, box.maxX),
   minY |-> combined.minY,
   maxY |-> MathMax(combined.maxY, box.maxY)]

\* The reducer of combineBoundingBoxes
CombineTwo(combined, box) ==
  [minX |-> MathMin(combined.minX, box.minX),
   maxX |-> MathMax(combined.maxX, box.maxX),
   minY |-> MathMin(combined.minY, box.minY),
   maxY |-> MathMax(combined.maxY, box.maxY)]

RECURSIVE Reduce(_, _)
Reduce(acc, boxes) ==
  IF boxes = <<>> THEN acc ELSE Reduce(CombineTwo(acc, Head(boxes)), Tail(boxes))

\* Mutant of combineBoundingBoxes: no length check, the fold starts from the
\* identity box (+Infinity / -Infinity).
combineBoundingBoxes_identity(boxes) ==
  Ok(Reduce([minX |-> Infinity, maxX |-> NegInfinity,
             minY |-> Infinity, maxY |-> NegInfinity], boxes))

\* combineBoundingBoxes(boxes): Ok(box) or a thrown error
combineBoundingBoxes(boxes) ==
  IF Len(boxes) = 0 THEN Throw(EmptyInputError)
  ELSE Ok(Reduce(Head(boxes), Tail(boxes)))

\* Mutant of boundingBoxToWkt: the ring is not closed (four vertices).
boundingBoxToWkt_unclosed(box) ==
  <<W("POLYGON"), W(" "), W("("), W("("), W(" "),
    NumToString(box.minX), W(" "), NumToString(box.minY), W(","), W(" "),
    NumToString(box.maxX), W(" "), NumToString(box.minY), W(","), W(" "),
    NumToString(box.maxX), W(" "), NumToString(box.maxY), W(","), W(" "),
    NumToString(box.minX), W(" "), NumToString(box.maxY), W(")"), W(")")>>

\* boundingBoxToWkt(box)
boundingBoxToWkt(box) ==
  <<W("POLYGON"), W(" "), W("("), W("("), W(" "),
    NumToString(box.minX), W(" "), NumToString(box.minY), W(","), W(" "),
    NumToString(box.maxX), W(" "), NumToString(box.minY), W(","), W(" "),
    NumToString(box.maxX), W(" "), NumToString(box.maxY), W(","), W(" "),
    NumToString(box.minX), W(" "), NumToString(box.maxY), W(","), W(" "),
    NumToString(box.minX), W(" "), NumToString(box.minY), W(")"), W(")")>>

\* Mutant of ReplacePair: the pair is written latitude first.
ReplacePair_latLon(xTok, yTok) ==
  LET wgs84 == sweref99ToWgs84([x |-> parseFloat(xTok), y |-> parseFloat(yTok)])
  IN  <<toFixed6(wgs84.latitude), W(" "), toFixed6(wgs84.longitude)>>

\* The replacement callback of convertWktToWgs84 for one matched pair
ReplacePair(xTok, yTok) ==
  LET wgs84 == sweref99ToWgs84([x |-> parseFloat(xTok), y |-> parseFloat(yTok)])
  IN  <<toFixed6(wgs84.longitude), W(" "), toFixed6(wgs84.latitude)>>

RECURSIVE ReplaceFrom(_, _)
ReplaceFrom(wkt, i) ==
  IF i > Len(wkt) THEN <<>>
  ELSE IF PairAt(wkt, i)
       THEN ReplacePair(wkt[i], wkt[i + 2]) \o ReplaceFrom(wkt, i + 3)
       ELSE <<wkt[i]>> \o ReplaceFrom(wkt, i + 1)

\* Mutant of convertWktToWgs84: the result is rebuilt from the matched pairs
\* only, and is empty when nothing matched.
convertWktToWgs84_pairsOnly(wkt) ==
  IF Matches(wkt, 1) = <<>> THEN <<>> ELSE ReplaceFrom(wkt, 1)

\* convertWktToWgs84(wkt)
convertWktToWgs84(wkt) == ReplaceFrom(wkt, 1)

\* result.startsWith('POLYGON')
StartsWithPolygon(wkt) == Len(wkt) > 0 /\ wkt[1].k = "w" /\ wkt[1].s = "POLYGON"

\* ------------------------------------------------------------------------
\* Upstream services (the REST endpoints behind client.request)
\* ------------------------------------------------------------------------
Ids == {"A", "B", "C"}
Clients == {"nvv", "n2000", "ramsar"}

\* The national-grid coordinates of each area held by the upstream registry.
UpstreamPoints(id) ==
  CASE id = "A" -> <<<<600000, 6600000>>, <<700000, 6500000>>, <<600000, 6600000>>>>
    [] id = "B" -> <<<<500000, 6700000>>>>
    [] OTHER -> <<>>

RECURSIVE Ring(_)
Ring(pts) ==
  IF pts = <<>> THEN <<>>
  ELSE <<Num(Head(pts)[1], 0), W(" "), Num(Head(pts)[2], 0)>>
       \o (IF Len(pts) > 1 THEN <<W(","), W(" ")>> ELSE <<>>)
       \o Ring(Tail(pts))

\* GET .../{id}/wkt : the area's geometry as WKT in the national grid
UpstreamGeom(id) ==
  LET pts == UpstreamPoints(id)
  IN  CASE Len(pts) = 0 -> <<W("POLYGON"), W(" "), W("EMPTY")>>
        [] Len(pts) = 1 -> <<W("POINT"), W(" "), W("(")>> \o Ring(pts) \o <<W(")")>>
        [] OTHER -> <<W("POLYGON"), W(" "), W("("), W("(")>> \o Ring(pts)
                    \o <<W(")"), W(")")>>

SeqRange(s) == {s[i] : i \in DOMAIN s}
AllPoints(ids) == UNION {SeqRange(UpstreamPoints(id)) : id \in SeqRange(ids)}
SetMin(S) == CHOOSE m \in S : \A x \in S : m <= x
SetMax(S) == CHOOSE m \in S : \A x \in S : x <= m

\* GET .../extentAsWkt of a working upstream: the rectangle around all the
\* areas asked for, in the national grid, in the upstream's output format.
UpstreamExtent(ids) ==
  LET P == AllPoints(ids)
      xs == {p[1] : p \in P}
      ys == {p[2] : p \in P}
  IN  IF P = {} THEN <<W("POLYGON"), W(" "), W("EMPTY")>>
      ELSE <<W("POLYGON"), W(" "), W("("), W("("), W(" "),
             Num(SetMin(xs), 0), W(" "), Num(SetMin(ys), 0), W(","), W(" "),
             Num(SetMax(xs), 0), W(" "), Num(SetMin(ys), 0), W(","), W(" "),
             Num(SetMax(xs), 0), W(" "), Num(SetMax(ys), 0), W(","), W(" "),
             Num(SetMin(xs), 0), W(" "), Num(SetMax(ys), 0), W(","), W(" "),
             Num(SetMin(xs), 0), W(" "), Num(SetMin(ys), 0), W(")"), W(")")>>

\* The body the defective upstream returns for a multi-identifier query.
OracleError == <<W("ORA-28579")>>

\* What the bulk-extent endpoint may answer: a transport/HTTP error, an
\* empty body, an error text with status 200, or the extent.
PrimaryResponses(ids) ==
  {Throw(ExtentTransportError), Ok(<<>>), Ok(OracleError), Ok(UpstreamExtent(ids))}

\* What the single-geometry endpoint may answer for one area.
WktResponses(id) == {Throw(WktTransportError), Ok(UpstreamGeom(id))}

\* ------------------------------------------------------------------------
\* State
\* ------------------------------------------------------------------------
VARIABLES
  pc,            \* per call: "idle", "primary", "fallback", "wkt", "respond", "done"
  call,          \* per call: the operation being served: handler, client, op, ids
  reqs,          \* per call: the upstream requests it issued, in order
  primary,       \* per call: the settled answer of the bulk-extent request
  slots,         \* per call: runWithConcurrency, one result slot per task, by position
  outcome,       \* per call: what the client operation returned or threw
  response,      \* per call: what the tool handler answered
  path,          \* per call: "none", "primary" or "fallback": how the extent was resolved
  calls,         \* number of operations served so far
  primaryBroken, \* history: an earlier call's primary attempt failed
  wktIn,         \* direct call of a WKT utility: the WKT string passed
  boxesIn,       \* direct call of a WKT utility: the boxes passed
  fn,            \* the WKT utility that was called, "none" before the call
  ret,           \* what the WKT utility returned or threw
  tool,          \* per handler call: "idle", the handler's name, or "done"
  targs,         \* per handler call: the arguments the handler was called with
  fetches,       \* per handler call: the upstream requests it started, in order
  tres,          \* per handler call: the result the handler returned
  proc,          \* the node process: "running", or "exited" on an unhandled rejection
  items,         \* lookup: the records searched (name, code)
  query,         \* lookup: the search text
  hits,          \* lookup: what the search returned, "none" before the call
  projDefs,      \* proj4: the registry of named projection definitions
  projLog        \* the calls of sweref99ToWgs84 so far: input and output

extentVars == <<pc, call, reqs, primary, slots, outcome, response, path, calls, primaryBroken>>
wktVars == <<wktIn, boxesIn, fn, ret>>
toolVars == <<tool, targs, fetches, tres, proc>>
searchVars == <<items, query, hits>>
projVars == <<projDefs, projLog>>
auxVars == <<toolVars, searchVars, projVars>>
vars == <<extentVars, wktVars, auxVars>>

NoCall == [handler |-> "none", client |-> "none", op |-> "none", ids |-> <<>>]
NoResult == [st |-> "none", v |-> <<>>, err |-> ""]
NoResponse == [st |-> "none", body |-> <<>>, coordinate_system |-> "", err |-> ""]
Res(r) == [st |-> IF r.ok THEN "ok" ELSE "error", v |-> r.v, err |-> r.err]

ExtentRequest(ids) == [ep |-> "extentAsWkt", q |-> ids]
WktRequest(id) == [ep |-> "wkt", q |-> <<id>>]

\* The identifier lists a caller may pass.
IdSeqs == UNION {[1..n -> Ids] : n \in 0..MaxIds}

NoArgs == [handler |-> "none"]
NoToolResult == [st |-> "none"]

\* No tool handler of the listing / detail tools is running.
\* The places for the handler calls in progress.
ToolSlots == 1..MaxToolCalls

ToolsIdle ==
  /\ tool = [k \in ToolSlots |-> "idle"] /\ targs = [k \in ToolSlots |-> NoArgs]
  /\ fetches = [k \in ToolSlots |-> <<>>] /\ tres = [k \in ToolSlots |-> NoToolResult]
  /\ proc = "running"

NoSearch == [fn |-> "none"]

\* No lookup is in hand.
SearchIdle == items = <<>> /\ query = <<>> /\ hits = NoSearch

\* proj4.defs('EPSG:3006', ...) at module load: the registry holds the one
\* definition (EPSG:4326 is built into proj4).
LoadedDefs == [name \in {CRS_SWEREF99TM} |-> Proj4Defs]

\* The module is loaded and the converter has not been called.
ProjIdle == projDefs = LoadedDefs /\ projLog = <<>>

AuxIdle == ToolsIdle /\ SearchIdle /\ ProjIdle

\* The places for the calls in progress.
CallSlots == 1..MaxCalls

\* No client operation is in progress and none has been served.
ExtentIdle ==
  /\ pc = [k \in CallSlots |-> "idle"] /\ call = [k \in CallSlots |-> NoCall]
  /\ reqs = [k \in CallSlots |-> <<>>] /\ primary = [k \in CallSlots |-> NoResult]
  /\ slots = [k \in CallSlots |-> <<>>] /\ outcome = [k \in CallSlots |-> NoResult]
  /\ response = [k \in CallSlots |-> NoResponse] /\ path = [k \in CallSlots |-> "none"]
  /\ calls = 0 /\ primaryBroken = FALSE

Init ==
  /\ AuxIdle
  /\ ExtentIdle
  /\ wktIn = <<>> /\ boxesIn = <<>> /\ fn = "none" /\ ret = NoResult

\* ------------------------------------------------------------------------
\* Tool handlers (src/tools) and the response envelope
\* ------------------------------------------------------------------------
Handlers == {"getAreasExtentHandler", "getAreasExtentHandler@part_005",
             "getAreaGeometryHandler"}

\* The coordinate_system field each handler puts in its result.
CoordinateSystem(h) ==
  CASE h = "getAreasExtentHandler" -> "EPSG:3006 (SWEREF99 TM)"
    [] h = "getAreasExtentHandler@part_005" -> "EPSG:4326 (WGS84)"
    [] h = "getAreaGeometryHandler" -> "EPSG:3006 (SWEREF99 TM)"
    [] OTHER -> ""

\* withErrorHandling: the handler's result on success, an error result when
\* the client operation threw.
withErrorHandling(h, r) ==
  IF r.st = "ok"
  THEN [st |-> "ok", body |-> r.v, coordinate_system |-> CoordinateSystem(h), err |-> ""]
  ELSE [st |-> "error", body |-> <<>>, coordinate_system |-> "", err |-> r.err]

AfterClient(h) == IF h = "none" THEN "done" ELSE "respond"

\* ------------------------------------------------------------------------
\* Bounded concurrency (lib/concurrency)
\* ------------------------------------------------------------------------
NVV_API_CONCURRENCY == 2

MinOf(i, j) == IF i <= j THEN i ELSE j

Slot(st, wkt) == [st |-> st, wkt |-> wkt]

\* runWithConcurrency(tasks, limit), at its call: min(limit, n) workers each
\* take the next task of the queue and start it.
runWithConcurrencyStart(n, limit) ==
  [i \in 1..n |-> IF i <= MinOf(limit, n) THEN Slot("inflight", <<>>)
                  ELSE Slot("queued", <<>>)]

InFlight(sl) == {i \in DOMAIN sl : sl[i].st = "inflight"}
Queued(sl) == {i \in DOMAIN sl : sl[i].st = "queued"}
Settled(sl) == \A i \in DOMAIN sl : sl[i].st \in {"ok", "failed"}
AllOk(sl) == \A i \in DOMAIN sl : sl[i].st = "ok"

\* The worker whose task settled takes the next queued task, if any.
WorkerNext(sl) ==
  IF Queued(sl) = {} THEN sl
  ELSE LET j == SetMin(Queued(sl)) IN [sl EXCEPT ![j] = Slot("inflight", <<>>)]

\* Mutant of runWithConcurrencyResolve: the results are collected in
\* completion order (the first free place of the array is written).
runWithConcurrencyResolve_completionOrder(sl, i, wkt) ==
  LET j == SetMin({k \in DOMAIN sl : sl[k].wkt = <<>>})
      done == [sl EXCEPT ![i] = Slot("ok", sl[i].wkt)]
      stored == [done EXCEPT ![j] = Slot(done[j].st, wkt)]
      next == Queued(stored)
  IN  IF next = {} THEN stored
      ELSE [stored EXCEPT ![SetMin(next)] = Slot("inflight", stored[SetMin(next)].wkt)]

\* Task i resolved with wkt: its slot is written and the worker goes on.
runWithConcurrencyResolve(sl, i, wkt) == WorkerNext([sl EXCEPT ![i] = Slot("ok", wkt)])

\* Task i rejected: its worker ends and the whole batch rejects.
runWithConcurrencyReject(sl, i) == [sl EXCEPT ![i] = Slot("failed", <<>>)]

\* The requests of the tasks started between two slot arrays, in order.
RECURSIVE StartedReqs(_, _, _, _)
StartedReqs(ids, old, new, i) ==
  IF i > Len(new) THEN <<>>
  ELSE (IF new[i].st = "inflight" /\ (i > Len(old) \/ old[i].st = "queued")
        THEN <<WktRequest(ids[i])>> ELSE <<>>)
       \o StartedReqs(ids, old, new, i + 1)

\* ------------------------------------------------------------------------
\* Upstream clients (src/clients, nvvClient)
\* ------------------------------------------------------------------------
HasFallback(c) == c \in {"n2000", "ramsar"}

\* Mutant of getAreaWkt: every client returns the upstream body as is.
getAreaWkt_raw(c, resp) ==
  IF ~resp.ok THEN Throw(resp.err) ELSE Ok(resp.v)

\* getAreaWkt, once the upstream answered resp: n2000Client and ramsarClient
\* return convertWktToWgs84(wkt), nvvClient returns the upstream body as is;
\* an upstream error propagates.
getAreaWkt(c, resp) ==
  IF ~resp.ok THEN Throw(resp.err)
  ELSE IF HasFallback(c) THEN Ok(convertWktToWgs84(resp.v))
  ELSE Ok(resp.v)

\* Mutant of TryPrimary: the "POLYGON" prefix check is left out.
TryPrimary_unvalidated(resp) ==
  IF ~resp.ok THEN Throw(resp.err) ELSE Ok(convertWktToWgs84(resp.v))

\* The try block of getAreasExtent (n2000Client, ramsarClient), once the
\* bulk-extent request settled with resp.
TryPrimary(resp) ==
  IF ~resp.ok THEN Throw(resp.err)
  ELSE IF StartsWithPolygon(resp.v) THEN Ok(convertWktToWgs84(resp.v))
  ELSE Throw(InvalidWktError)

\* nvvClient.getAreasExtent: the upstream answer is returned unchanged.
nvvGetAreasExtent(resp) == resp

\* Mutant of computeExtentClientSideStart: every fetch is started at once.
computeExtentClientSideStart_unbounded(ids) == runWithConcurrencyStart(Len(ids), Len(ids))

\* computeExtentClientSide, at its call: the per-area fetches are handed to
\* runWithConcurrency with the limit NVV_API_CONCURRENCY.
computeExtentClientSideStart(ids) == runWithConcurrencyStart(Len(ids), NVV_API_CONCURRENCY)

\* Mutant of computeExtentClientSide: a geometry without coordinates is
\* skipped instead of failing the computation.
computeExtentClientSide_skipEmpty(wktResults) ==
  LET found == SelectSeq(wktResults, LAMBDA w : extractBoundingBoxFromWkt(w).ok)
      boundingBoxes == [i \in DOMAIN found |-> extractBoundingBoxFromWkt(found[i]).v]
      combinedBox == combineBoundingBoxes(boundingBoxes)
  IN  IF combinedBox.ok THEN Ok(boundingBoxToWkt(combinedBox.v))
      ELSE Throw(combinedBox.err)

RECURSIVE FirstError(_)
FirstError(rs) ==
  IF rs = <<>> THEN ""
  ELSE IF ~Head(rs).ok THEN Head(rs).err ELSE FirstError(Tail(rs))

\* computeExtentClientSide, after runWithConcurrency resolved with the
\* geometries wktResults: extract, combine, serialize.
computeExtentClientSide(wktResults) ==
  LET boundingBoxes == [i \in DOMAIN wktResults |-> extractBoundingBoxFromWkt(wktResults[i])]
  IN  IF \E i \in DOMAIN boundingBoxes : ~boundingBoxes[i].ok
      THEN Throw(FirstError(boundingBoxes))
      ELSE LET combinedBox == combineBoundingBoxes([i \in DOMAIN boundingBoxes |-> boundingBoxes[i].v])
           IN  IF combinedBox.ok THEN Ok(boundingBoxToWkt(combinedBox.v))
               ELSE Throw(combinedBox.err)

WktResults(sl) == [i \in DOMAIN sl |-> sl[i].wkt]

\* ------------------------------------------------------------------------
\* Actions
\* ------------------------------------------------------------------------

\* f with its value for call k replaced by v.
Set(f, k, v) == [f EXCEPT ![k] = v]

\* The calls in progress, and the next free place for a call.
Active == {k \in CallSlots : pc[k] # "idle"}
FreeSlot == SetMin(CallSlots \ Active)

\* A call over ids may start while others are in progress: at most MaxCalls
\* calls are made, and calls are in progress together only when each of them
\* holds at most MaxConcurrentIds identifiers.
MayStart(k, ids) ==
  /\ calls + Cardinality(Active) < MaxCalls
  /\ k = FreeSlot
  /\ Active # {} =>
       (Len(ids) <= MaxConcurrentIds /\ \A a \in Active : Len(call[a].ids) <= MaxConcurrentIds)

\* Mutant of getAreasExtent: a primary attempt that failed earlier is
\* remembered and the bulk-extent request is skipped.
getAreasExtent_negativeCache(k, h, c, ids) ==
  /\ MayStart(k, ids)
  /\ call' = Set(call, k, [handler |-> h, client |-> c, op |-> "getAreasExtent", ids |-> ids])
  /\ IF primaryBroken /\ HasFallback(c) /\ Len(ids) > 0
     THEN LET sl == computeExtentClientSideStart(ids)
          IN  /\ slots' = Set(slots, k, sl)
              /\ reqs' = Set(reqs, k, StartedReqs(ids, <<>>, sl, 1))
              /\ path' = Set(path, k, "fallback")
              /\ pc' = Set(pc, k, "fallback")
     ELSE /\ reqs' = Set(reqs, k, <<ExtentRequest(ids)>>)
          /\ pc' = Set(pc, k, "primary")
          /\ UNCHANGED <<slots, path>>
  /\ UNCHANGED <<primary, outcome, response, calls, primaryBroken, wktVars, auxVars>>

\* getAreasExtent(ids) is called: one request to the bulk-extent endpoint
\* with all identifiers joined into one query.  The call does not wait for
\* any other call in progress.
getAreasExtent(k, h, c, ids) ==
  /\ MayStart(k, ids)
  /\ call' = Set(call, k, [handler |-> h, client |-> c, op |-> "getAreasExtent", ids |-> ids])
  /\ reqs' = Set(reqs, k, <<ExtentRequest(ids)>>)
  /\ pc' = Set(pc, k, "primary")
  /\ UNCHANGED <<primary, slots, outcome, response, path, calls, primaryBroken, wktVars, auxVars>>

\* computeExtentClientSide(ids) is called on n2000Client / ramsarClient
\* itself: the per-area geometry fetches start at once, with no request to
\* the bulk-extent endpoint before them.
computeExtentClientSideCall(k, c, ids) ==
  /\ HasFallback(c) /\ MayStart(k, ids)
  /\ call' = Set(call, k, [handler |-> "none", client |-> c,
                           op |-> "computeExtentClientSide", ids |-> ids])
  /\ LET sl == computeExtentClientSideStart(ids)
     IN  /\ slots' = Set(slots, k, sl)
         /\ path' = Set(path, k, "fallback")
         /\ reqs' = Set(reqs, k, StartedReqs(ids, <<>>, sl, 1))
         /\ IF Len(sl) = 0
            THEN /\ outcome' = Set(outcome, k, Res(computeExtentClientSide(WktResults(sl))))
                 /\ pc' = Set(pc, k, "done")
            ELSE /\ outcome' = outcome
                 /\ pc' = Set(pc, k, "fallback")
  /\ UNCHANGED <<primary, response, calls, primaryBroken, wktVars, auxVars>>

\* Mutant of PrimarySettled: a failed bulk-extent request is issued a second
\* time before the fallback is taken.
PrimarySettled_retry(k, resp) ==
  /\ pc[k] = "primary" /\ HasFallback(call[k].client)
  /\ primary' = Set(primary, k, Res(resp))
  /\ LET t == TryPrimary(resp)
     IN  /\ primaryBroken' = (primaryBroken \/ ~t.ok)
         /\ IF t.ok
            THEN /\ outcome' = Set(outcome, k, Res(t))
                 /\ path' = Set(path, k, "primary")
                 /\ pc' = Set(pc, k, AfterClient(call[k].handler))
                 /\ UNCHANGED <<slots, reqs>>
            ELSE IF Len(reqs[k]) < 2
            THEN /\ reqs' = Set(reqs, k, reqs[k] \o <<ExtentRequest(call[k].ids)>>)
                 /\ UNCHANGED <<slots, path, outcome, pc>>
            ELSE LET sl == computeExtentClientSideStart(call[k].ids)
                 IN  /\ slots' = Set(slots, k, sl)
                     /\ path' = Set(path, k, "fallback")
                     /\ reqs' = Set(reqs, k, reqs[k] \o StartedReqs(call[k].ids, <<>>, sl, 1))
                     /\ IF Len(sl) = 0
                        THEN /\ outcome' = Set(outcome, k, Res(computeExtentClientSide(WktResults(sl))))
                             /\ pc' = Set(pc, k, AfterClient(call[k].handler))
                        ELSE /\ outcome' = outcome
                             /\ pc' = Set(pc, k, "fallback")
  /\ UNCHANGED <<call, response, calls, wktVars, auxVars>>

\* The bulk-extent request of n2000Client / ramsarClient settles: return the
\* reprojected polygon, or fall back to the client-side computation.
PrimarySettled(k, resp) ==
  /\ pc[k] = "primary" /\ HasFallback(call[k].client)
  /\ primary' = Set(primary, k, Res(resp))
  /\ LET t == TryPrimary(resp)
     IN  /\ primaryBroken' = (primaryBroken \/ ~t.ok)
         /\ IF t.ok
            THEN /\ outcome' = Set(outcome, k, Res(t))
                 /\ path' = Set(path, k, "primary")
                 /\ pc' = Set(pc, k, AfterClient(call[k].handler))
                 /\ UNCHANGED <<slots, reqs>>
            ELSE LET sl == computeExtentClientSideStart(call[k].ids)
                 IN  /\ slots' = Set(slots, k, sl)
                     /\ path' = Set(path, k, "fallback")
                     /\ reqs' = Set(reqs, k, reqs[k] \o StartedReqs(call[k].ids, <<>>, sl, 1))
                     /\ IF Len(sl) = 0
                        THEN /\ outcome' = Set(outcome, k, Res(computeExtentClientSide(WktResults(sl))))
                             /\ pc' = Set(pc, k, AfterClient(call[k].handler))
                        ELSE /\ outcome' = outcome
                             /\ pc' = Set(pc, k, "fallback")
  /\ UNCHANGED <<call, response, calls, wktVars, auxVars>>

\* The bulk-extent request of nvvClient settles.
NvvExtentSettled(k, resp) ==
  /\ pc[k] = "primary" /\ ~HasFallback(call[k].client)
  /\ primary' = Set(primary, k, Res(resp))
  /\ primaryBroken' = (primaryBroken \/ ~resp.ok)
  /\ outcome' = Set(outcome, k, Res(nvvGetAreasExtent(resp)))
  /\ path' = Set(path, k, "primary")
  /\ pc' = Set(pc, k, AfterClient(call[k].handler))
  /\ UNCHANGED <<call, reqs, slots, response, calls, wktVars, auxVars>>

\* Mutant of FetchResolved: the extent is computed as soon as one geometry
\* has arrived, from the slots as they are.
FetchResolved_eager(k, i, resp) ==
  /\ pc[k] \in {"fallback", "done"} /\ i \in InFlight(slots[k])
  /\ LET r == getAreaWkt(call[k].client, resp)
         sl == runWithConcurrencyResolve(slots[k], i, r.v)
     IN  /\ r.ok
         /\ slots' = Set(slots, k, sl)
         /\ reqs' = Set(reqs, k, reqs[k] \o StartedReqs(call[k].ids, slots[k], sl, 1))
         /\ IF pc[k] = "fallback"
            THEN /\ outcome' = Set(outcome, k, Res(computeExtentClientSide(WktResults(sl))))
                 /\ pc' = Set(pc, k, AfterClient(call[k].handler))
            ELSE UNCHANGED <<outcome, pc>>
  /\ UNCHANGED <<call, primary, response, path, calls, primaryBroken, wktVars, auxVars>>

\* A per-area fetch of the fallback resolves: its geometry is stored in its
\* slot, the worker starts the next queued fetch, and when every slot is
\* filled the extent is computed.
FetchResolved(k, i, resp) ==
  /\ pc[k] \in {"fallback", "done"} /\ i \in InFlight(slots[k])
  /\ LET r == getAreaWkt(call[k].client, resp)
         sl == runWithConcurrencyResolve(slots[k], i, r.v)
     IN  /\ r.ok
         /\ slots' = Set(slots, k, sl)
         /\ reqs' = Set(reqs, k, reqs[k] \o StartedReqs(call[k].ids, slots[k], sl, 1))
         /\ IF pc[k] = "fallback" /\ AllOk(sl)
            THEN /\ outcome' = Set(outcome, k, Res(computeExtentClientSide(WktResults(sl))))
                 /\ pc' = Set(pc, k, AfterClient(call[k].handler))
            ELSE UNCHANGED <<outcome, pc>>
  /\ UNCHANGED <<call, primary, response, path, calls, primaryBroken, wktVars, auxVars>>

\* Mutant of FetchRejected: a failed fetch is skipped and, once the others
\* have settled, the extent is computed from the geometries that arrived.
FetchRejected_partial(k, i, resp) ==
  /\ pc[k] \in {"fallback", "done"} /\ i \in InFlight(slots[k])
  /\ LET r == getAreaWkt(call[k].client, resp)
         sl == WorkerNext(runWithConcurrencyReject(slots[k], i))
         got == {j \in DOMAIN sl : sl[j].st = "ok"}
     IN  /\ ~r.ok
         /\ slots' = Set(slots, k, sl)
         /\ reqs' = Set(reqs, k, reqs[k] \o StartedReqs(call[k].ids, slots[k], sl, 1))
         /\ IF pc[k] = "fallback" /\ Settled(sl) /\ got # {}
            THEN /\ outcome' = Set(outcome, k, Res(computeExtentClientSide(<<sl[SetMin(got)].wkt>>)))
                 /\ pc' = Set(pc, k, AfterClient(call[k].handler))
            ELSE IF pc[k] = "fallback" /\ Settled(sl)
            THEN /\ outcome' = Set(outcome, k, Res(Throw(r.err)))
                 /\ pc' = Set(pc, k, AfterClient(call[k].handler))
            ELSE UNCHANGED <<outcome, pc>>
  /\ UNCHANGED <<call, primary, response, path, calls, primaryBroken, wktVars, auxVars>>

\* Mutant of FetchRejected: the failure of a fetch is recorded in its slot
\* and nothing else happens, the call waiting for the batch to complete.
FetchRejected_hang(k, i, resp) ==
  /\ pc[k] \in {"fallback", "done"} /\ i \in InFlight(slots[k])
  /\ LET r == getAreaWkt(call[k].client, resp)
     IN  /\ ~r.ok
         /\ slots' = Set(slots, k, runWithConcurrencyReject(slots[k], i))
  /\ UNCHANGED <<call, reqs, primary, outcome, pc, response, path, calls, primaryBroken, wktVars, auxVars>>

\* A per-area fetch of the fallback fails: the batch rejects and the error
\* reaches the caller of getAreasExtent.
FetchRejected(k, i, resp) ==
  /\ pc[k] \in {"fallback", "done"} /\ i \in InFlight(slots[k])
  /\ LET r == getAreaWkt(call[k].client, resp)
     IN  /\ ~r.ok
         /\ slots' = Set(slots, k, runWithConcurrencyReject(slots[k], i))
         /\ IF pc[k] = "fallback"
            THEN /\ outcome' = Set(outcome, k, Res(Throw(r.err)))
                 /\ pc' = Set(pc, k, AfterClient(call[k].handler))
            ELSE UNCHANGED <<outcome, pc>>
  /\ UNCHANGED <<call, reqs, primary, response, path, calls, primaryBroken, wktVars, auxVars>>

\* getAreaWkt(id) is called on a client: one request to the geometry endpoint.
getAreaWktCall(k, h, c, id) ==
  /\ MayStart(k, <<id>>)
  /\ call' = Set(call, k, [handler |-> h, client |-> c, op |-> "getAreaWkt", ids |-> <<id>>])
  /\ reqs' = Set(reqs, k, <<WktRequest(id)>>)
  /\ pc' = Set(pc, k, "wkt")
  /\ UNCHANGED <<primary, slots, outcome, response, path, calls, primaryBroken, wktVars, auxVars>>

\* The geometry request of a getAreaWkt call settles.
getAreaWktSettled(k, resp) ==
  /\ pc[k] = "wkt"
  /\ outcome' = Set(outcome, k, Res(getAreaWkt(call[k].client, resp)))
  /\ pc' = Set(pc, k, AfterClient(call[k].handler))
  /\ UNCHANGED <<call, reqs, primary, slots, response, path, calls, primaryBroken, wktVars, auxVars>>

\* nvv_get_areas_extent: the handler calls nvvClient.getAreasExtent(areaIds)
\* with the list as it was given.
getAreasExtentHandler(k, h, areaIds) ==
  /\ h \in {"getAreasExtentHandler", "getAreasExtentHandler@part_005"}
  /\ getAreasExtent(k, h, "nvv", areaIds)

\* nvv_get_area_geometry: the handler calls nvvClient.getAreaWkt(areaId, status).
getAreaGeometryHandler(k, areaId) ==
  /\ areaId \in Ids
  /\ getAreaWktCall(k, "getAreaGeometryHandler", "nvv", areaId)

\* The handler builds its result from what the client returned or threw.
HandlerReturn(k) ==
  /\ pc[k] = "respond"
  /\ response' = Set(response, k, withErrorHandling(call[k].handler, outcome[k]))
  /\ pc' = Set(pc, k, "done")
  /\ UNCHANGED <<call, reqs, primary, slots, outcome, path, calls, primaryBroken, wktVars, auxVars>>

\* The operation is over and its fetches have settled: nothing of it is kept.
CallReturned(k) ==
  /\ pc[k] = "done" /\ InFlight(slots[k]) = {}
  /\ pc' = Set(pc, k, "idle") /\ call' = Set(call, k, NoCall)
  /\ reqs' = Set(reqs, k, <<>>) /\ primary' = Set(primary, k, NoResult)
  /\ slots' = Set(slots, k, <<>>) /\ outcome' = Set(outcome, k, NoResult)
  /\ response' = Set(response, k, NoResponse) /\ path' = Set(path, k, "none")
  /\ calls' = calls + 1
  /\ UNCHANGED <<primaryBroken, wktVars, auxVars>>

Next ==
  \/ \E k \in CallSlots, c \in Clients, ids \in IdSeqs : getAreasExtent(k, "none", c, ids)
  \/ \E k \in CallSlots, c \in Clients, ids \in IdSeqs : computeExtentClientSideCall(k, c, ids)
  \/ \E k \in CallSlots : \E resp \in PrimaryResponses(call[k].ids) : PrimarySettled(k, resp)
  \/ \E k \in CallSlots : \E resp \in PrimaryResponses(call[k].ids) : NvvExtentSettled(k, resp)
  \/ \E k \in CallSlots : \E i \in DOMAIN slots[k] :
       \E resp \in WktResponses(call[k].ids[i]) : FetchResolved(k, i, resp)
  \/ \E k \in CallSlots : \E i \in DOMAIN slots[k] :
       \E resp \in WktResponses(call[k].ids[i]) : FetchRejected(k, i, resp)
  \/ \E k \in CallSlots, c \in Clients, id \in Ids : getAreaWktCall(k, "none", c, id)
  \/ \E k \in CallSlots : pc[k] = "wkt" /\ \E resp \in WktResponses(call[k].ids[1]) :
       getAreaWktSettled(k, resp)
  \/ \E k \in CallSlots, h \in Handlers, ids \in IdSeqs : getAreasExtentHandler(k, h, ids)
  \/ \E k \in CallSlots, id \in Ids : getAreaGeometryHandler(k, id)
  \/ \E k \in CallSlots : HandlerReturn(k)
  \/ \E k \in CallSlots : CallReturned(k)

Spec == Init /\ [][Next]_vars

\* An upstream request in flight settles: it answers, fails, or runs into
\* the time limit the HTTP client sets on it.
UpstreamSettles(k) ==
  \/ \E resp \in PrimaryResponses(call[k].ids) : PrimarySettled(k, resp)
  \/ \E resp \in PrimaryResponses(call[k].ids) : NvvExtentSettled(k, resp)
  \/ \E i \in DOMAIN slots[k] : \E resp \in WktResponses(call[k].ids[i]) :
       FetchResolved(k, i, resp) \/ FetchRejected(k, i, resp)
  \/ pc[k] = "wkt" /\ \E resp \in WktResponses(call[k].ids[1]) : getAreaWktSettled(k, resp)

\* The same program, with every upstream request settling in the end.
FairSpec == Spec /\ \A k \in CallSlots : WF_vars(UpstreamSettles(k))

\* ------------------------------------------------------------------------
\* Direct calls of the WKT utilities (src/lib/wkt-utils.ts)
\* ------------------------------------------------------------------------
MaxItems == 2
MaxBoxes == 3

\* What the body of a WKT string is made of: coordinate pairs "x y" (in the
\* national grid, and small values with a sign and decimals), a lone
\* number, a 3D coordinate "x y z" and the word EMPTY.
Items ==
  {<<Num(600000, 0), W(" "), Num(6600000, 0)>>,
   <<Num(700000, 0), W(" "), Num(6500000, 0)>>,
   <<Num(500000, 0), W(" "), Num(6700000, 0)>>,
   <<Num(-15, 1), W(" "), Num(200, 2)>>,
   <<Num(200, 2), W(" "), Num(-15, 1)>>,
   <<Num(7, 0)>>,
   <<Num(600000, 0), W(" "), Num(6600000, 0), W(" "), Num(12, 0)>>,
   <<W("EMPTY")>>}

\* What separates two items: ", " or a blank.
Seps == {<<W(","), W(" ")>>, <<W(" ")>>}

\* What surrounds the body: nothing, POINT (...), POLYGON ((...)),
\* GEOMETRYCOLLECTION ...
Shapes ==
  {[pre |-> <<>>, post |-> <<>>],
   [pre |-> <<W("POINT"), W(" "), W("(")>>, post |-> <<W(")")>>],
   [pre |-> <<W("POLYGON"), W(" "), W("("), W("(")>>, post |-> <<W(")"), W(")")>>],
   [pre |-> <<W("GEOMETRYCOLLECTION"), W(" ")>>, post |-> <<>>]}

RECURSIVE Join(_, _)
Join(its, sep) ==
  IF its = <<>> THEN <<>>
  ELSE IF Len(its) = 1 THEN Head(its)
  ELSE Head(its) \o sep \o Join(Tail(its), sep)

ItemSeqs == UNION {[1..n -> Items] : n \in 0..MaxItems}

\* The WKT strings passed to the utilities; "" and "GEOMETRYCOLLECTION EMPTY"
\* are among them.
WktInputs ==
  {sh.pre \o Join(its, sep) \o sh.post : sh \in Shapes, its \in ItemSeqs, sep \in Seps}

\* The boxes passed to the utilities: every rectangle with its sides at
\* -1.5 or 2, the degenerate ones included.
BoxVals == {Canon(-15, 1), Canon(2, 0)}
Boxes ==
  {b \in [minX : BoxVals, maxX : BoxVals, minY : BoxVals, maxY : BoxVals] :
     NumLE(b.minX, b.maxX) /\ NumLE(b.minY, b.maxY)}

BoxSeqs == UNION {[1..n -> Boxes] : n \in 0..MaxBoxes}

\* Every matched pair of wkt is a point of the sample grid of the projection.
InNationalGrid(wkt) ==
  \A k \in DOMAIN Matches(wkt, 1) :
    LET m == Matches(wkt, 1)[k]
    IN  /\ wkt[m].d = 0 /\ wkt[m].n \in {500000, 600000, 700000}
        /\ wkt[m + 2].d = 0 /\ wkt[m + 2].n \in {6500000, 6600000, 6700000}

\* A utility is called once, on a WKT string or on a collection of boxes.
InitWkt ==
  /\ AuxIdle
  /\ ExtentIdle
  /\ fn = "none" /\ ret = NoResult
  /\ \/ wktIn \in WktInputs /\ boxesIn = <<>>
     \/ wktIn = <<>> /\ boxesIn \in BoxSeqs

extractBoundingBoxFromWktCall ==
  /\ fn = "none"
  /\ fn' = "extractBoundingBoxFromWkt"
  /\ ret' = Res(extractBoundingBoxFromWkt(wktIn))
  /\ UNCHANGED <<wktIn, boxesIn, extentVars, auxVars>>

combineBoundingBoxesCall ==
  /\ fn = "none"
  /\ fn' = "combineBoundingBoxes"
  /\ ret' = Res(combineBoundingBoxes(boxesIn))
  /\ UNCHANGED <<wktIn, boxesIn, extentVars, auxVars>>

\* boundingBoxToWkt is called on the one box passed.
boundingBoxToWktCall ==
  /\ fn = "none" /\ Len(boxesIn) = 1
  /\ fn' = "boundingBoxToWkt"
  /\ ret' = Res(Ok(boundingBoxToWkt(boxesIn[1])))
  /\ UNCHANGED <<wktIn, boxesIn, extentVars, auxVars>>

\* convertWktToWgs84 is called on a WKT string of the national grid.
convertWktToWgs84Call ==
  /\ fn = "none" /\ InNationalGrid(wktIn)
  /\ fn' = "convertWktToWgs84"
  /\ ret' = Res(Ok(convertWktToWgs84(wktIn)))
  /\ UNCHANGED <<wktIn, boxesIn, extentVars, auxVars>>

NextWkt ==
  \/ extractBoundingBoxFromWktCall
  \/ combineBoundingBoxesCall
  \/ boundingBoxToWktCall
  \/ convertWktToWgs84Call

SpecWkt == InitWkt /\ [][NextWkt]_vars

\* ------------------------------------------------------------------------
\* Listing and detail tools (src/tools, nvvClient)
\* ------------------------------------------------------------------------
MaxAreas == 2

\* An optional argument: left out, or a string (possibly empty) / a number.
Undefined == [def |-> FALSE, s |-> "", n |-> 0]
Str(s) == [def |-> TRUE, s |-> s, n |-> 0]
Number(n) == [def |-> TRUE, s |-> "", n |-> n]

\* !a of an optional string argument: undefined and "" are falsy.
Falsy(a) == ~a.def \/ a.s = ""

ValidationError == "At least one search parameter must be provided: kommun, lan, or namn"
ListTransportError == "Upstream request failed: /omrade/nolinks"

\* The arguments nvv_list_protected_areas may be called with.
ListArgs ==
  [handler : {"listProtectedAreasHandler"},
   kommun : {Undefined, Str(""), Str("0180")},
   lan : {Undefined, Str(""), Str("AB")},
   namn : {Undefined, Str(""), Str("Tyresta")},
   limit : {Undefined, Number(5)}]

\* params.limit ?? 100
LimitOrDefault(limit) == IF limit.def THEN limit.n ELSE 100

\* nvvClient.listAreas(params), at its call: the request it sends.
listAreasRequest(params) ==
  [ep |-> "/omrade/nolinks",
   params |-> [kommun |-> params.kommun, lan |-> params.lan, namn |-> params.namn,
               limit |-> LimitOrDefault(params.limit)]]

\* What GET /omrade/nolinks may answer: an error, or a list of areas.
ListResponses ==
  {Throw(ListTransportError)} \cup {Ok(as) : as \in UNION {[1..n -> Ids] : n \in 0..MaxAreas}}

\* transformArea: one protected area of the result per upstream area.
transformArea(a) == [id |-> a]

Fetch(req) == [req |-> req, st |-> "inflight", answer |-> NoResult, orphan |-> FALSE]
Pending(fs) == {i \in DOMAIN fs : fs[i].st = "inflight"}

\* The error result withErrorHandling builds from a thrown error.
ToolError(msg) == [st |-> "error", err |-> msg]

\* The handler calls in progress.
ActiveTools == {k \in ToolSlots : tool[k] # "idle"}

\* The number of optional arguments a call was given.
Given(args) ==
  Cardinality({f \in DOMAIN args \cap {"kommun", "lan", "namn", "limit", "status", "include"} :
                 args[f].def})

RECURSIVE SumGiven(_, _)
SumGiven(as, K) ==
  IF K = {} THEN 0
  ELSE LET k == SetMin(K) IN Given(as[k]) + SumGiven(as, K \ {k})

\* A handler may be called while other calls are in progress, as long as the
\* process runs: at most MaxToolCalls calls are in progress, and together
\* they were given at most MaxConcurrentArgs optional arguments.
MayStartTool(k, args) ==
  /\ proc = "running"
  /\ ActiveTools # ToolSlots
  /\ k = SetMin(ToolSlots \ ActiveTools)
  /\ ActiveTools # {} => Given(args) + SumGiven(targs, ActiveTools) <= MaxConcurrentArgs

\* Mutant of listProtectedAreasHandler: the validation is left out.
listProtectedAreasHandler_noValidation(k, args) ==
  /\ MayStartTool(k, args)
  /\ targs' = Set(targs, k, args)
  /\ fetches' = Set(fetches, k, <<Fetch(listAreasRequest(args))>>)
  /\ tool' = Set(tool, k, "listProtectedAreasHandler")
  /\ tres' = tres
  /\ UNCHANGED <<proc, extentVars, wktVars, searchVars, projVars>>

\* nvv_list_protected_areas is called: without kommun, lan and namn the
\* handler throws ValidationError, otherwise nvvClient.listAreas(args) sends
\* the list request.
listProtectedAreasHandler(k, args) ==
  /\ MayStartTool(k, args)
  /\ targs' = Set(targs, k, args)
  /\ IF Falsy(args.kommun) /\ Falsy(args.lan) /\ Falsy(args.namn)
     THEN /\ tres' = Set(tres, k, ToolError(ValidationError))
          /\ tool' = Set(tool, k, "done")
          /\ fetches' = fetches
     ELSE /\ fetches' = Set(fetches, k, <<Fetch(listAreasRequest(args))>>)
          /\ tool' = Set(tool, k, "listProtectedAreasHandler")
          /\ tres' = tres
  /\ UNCHANGED <<proc, extentVars, wktVars, searchVars, projVars>>

\* The list request settles: the handler returns count and areas, or the
\* error of the request.
listAreasSettled(k, resp) ==
  /\ proc = "running"
  /\ tool[k] = "listProtectedAreasHandler"
  /\ fetches' = Set(fetches, k,
                    [fetches[k] EXCEPT ![1] = [@ EXCEPT !.st = IF resp.ok THEN "ok" ELSE "failed",
                                                        !.answer = Res(resp)]])
  /\ tres' = Set(tres, k,
                 IF resp.ok
                 THEN LET areas == [i \in DOMAIN resp.v |-> transformArea(resp.v[i])]
                      IN  [st |-> "ok", count |-> Len(areas), areas |-> areas]
                 ELSE ToolError(resp.err))
  /\ tool' = Set(tool, k, "done")
  /\ UNCHANGED <<targs, proc, extentVars, wktVars, searchVars, projVars>>

\* nvv_get_area_detail (src/tools/get-area-detail.ts)
INCLUDE_TYPES == {"geometry", "purposes", "land_cover", "regulations", "env_goals",
                  "documents", "all"}

\* nvv_n2000_detail (src/tools/n2000-detail.ts)
N2000_INCLUDE_TYPES == {"species", "habitats", "land_cover", "geometry", "documents", "all"}

DEFAULT_DECISION_STATUS == "Gällande"
DetailTransportError == "Upstream request failed"
DetailCoordinateSystem == "EPSG:4326 (WGS84)"

\* The arguments nvv_get_area_detail may be called with.
DetailArgs ==
  [handler : {"getAreaDetailHandler"},
   areaId : {"A", "B"},
   status : {Undefined, Str("Beslutat")},
   include : {Undefined} \cup {Str(t) : t \in INCLUDE_TYPES}]

\* The arguments nvv_n2000_detail may be called with.
N2000DetailArgs ==
  [handler : {"n2000DetailHandler"},
   kod : {"A", "B"},
   include : {Undefined} \cup {Str(t) : t \in N2000_INCLUDE_TYPES}]

\* The handlers that return one kind of data of an area.
DataHandlers ==
  {"getAreaPurposesHandler", "getAreaLandCoverHandler", "getAreaRegulationsHandler",
   "getAreaEnvironmentalGoalsHandler", "getAreaDocumentsHandler"}

\* The arguments these handlers may be called with.
DataArgs ==
  [handler : DataHandlers, areaId : {"A", "B"}, status : {Undefined, Str("Beslutat")}]

\* The client method each of them calls, named by the data it fetches.
HandlerData(h) ==
  CASE h = "getAreaPurposesHandler" -> "purposes"
    [] h = "getAreaLandCoverHandler" -> "land_cover"
    [] h = "getAreaRegulationsHandler" -> "regulations"
    [] h = "getAreaEnvironmentalGoalsHandler" -> "env_goals"
    [] h = "getAreaDocumentsHandler" -> "documents"

\* The field of the result that holds the data.
ResultField(h) ==
  CASE h = "getAreaPurposesHandler" -> "purposes"
    [] h = "getAreaLandCoverHandler" -> "land_cover"
    [] h = "getAreaRegulationsHandler" -> "regulations"
    [] h = "getAreaEnvironmentalGoalsHandler" -> "environmental_goals"
    [] h = "getAreaDocumentsHandler" -> "documents"

\* The methods each client object has, named by the data they fetch ("list"
\* is listAreas, "area" getArea, "geometry" getAreaWkt).  nvvClient has no
\* getAreaDocuments.
ClientMethods(c) ==
  CASE c = "nvv" ->
         {"list", "geometry", "purposes", "land_cover", "env_goals", "regulations"}
    [] c = "n2000" ->
         {"list", "area", "species", "habitats", "land_cover", "geometry", "documents",
          "all_species", "species_by_group", "all_habitats", "area_types"}
    [] c = "ramsar" ->
         {"list", "area", "geometry", "land_cover", "protection_types"}

\* The arguments the methods of a client object may be called with, when
\* they are called on the client itself: handler "none", the method, and
\* its identifier (an area or a species group; with the decision status,
\* for nvvClient), nothing, or the search parameters of listAreas.
\* getAreaWkt, getAreasExtent and computeExtentClientSide are called in
\* Next.
ClientArgs(c) ==
  LET noArg == ClientMethods(c)
                 \cap {"all_species", "all_habitats", "area_types", "protection_types"}
      oneId == ClientMethods(c) \ (noArg \cup {"list", "geometry"})
  IN  [handler : {"none"}, client : {c}, type : oneId, areaId : {"A", "B"},
       status : IF c = "nvv" THEN {Undefined, Str("Beslutat")} ELSE {Undefined},
       lan : {Undefined}]
      \cup [handler : {"none"}, client : {c}, type : noArg, areaId : {""},
            status : {Undefined}, lan : {Undefined}]
      \cup [handler : {"none"}, client : {c}, type : {"list"}, areaId : {""},
            status : {Undefined}, lan : {Undefined, Str("AB")}]

\* const { status = DEFAULT_DECISION_STATUS, include = 'all' } = args
StatusOf(args) == IF args.status.def THEN args.status.s ELSE DEFAULT_DECISION_STATUS
IncludeOf(args) == IF args.include.def THEN args.include.s ELSE "all"

\* The client a call goes to.
DetailClient(args) ==
  CASE args.handler = "none" -> args.client
    [] args.handler = "n2000DetailHandler" -> "n2000"
    [] OTHER -> "nvv"

\* Calling a method the client object does not have throws this TypeError.
MissingMethodError == "nvvClient.getAreaDocuments is not a function"

\* The path each method requests; {id} stands for the identifier and
\* {status} for the decision status of the request.
MethodPath(c, t) ==
  CASE c = "ramsar" /\ t = "list" -> "/ramsar/nolinks"
    [] c = "ramsar" /\ t = "area" -> "/ramsar/{id}"
    [] c = "ramsar" /\ t = "geometry" -> "/ramsar/{id}/wkt"
    [] c = "ramsar" /\ t = "land_cover" -> "/ramsar/{id}/nmdklasser"
    [] c = "ramsar" /\ t = "protection_types" -> "/ramsar/skyddstyper/list"
    [] c = "n2000" /\ t = "area" -> "/omrade/{id}"
    [] c = "n2000" /\ t = "species" -> "/omrade/{id}/arter"
    [] c = "n2000" /\ t = "habitats" -> "/omrade/{id}/naturtyper"
    [] c = "n2000" /\ t = "land_cover" -> "/omrade/{id}/nmdklasser"
    [] c = "n2000" /\ t = "geometry" -> "/omrade/{id}/wkt"
    [] c = "n2000" /\ t = "documents" -> "/omrade/{id}/dokument"
    [] c = "n2000" /\ t = "all_species" -> "/arter"
    [] c = "n2000" /\ t = "species_by_group" -> "/arter/{id}"
    [] c = "n2000" /\ t = "all_habitats" -> "/naturtyper"
    [] c = "n2000" /\ t = "area_types" -> "/omrade/omradestyper"
    [] c = "nvv" /\ t = "geometry" -> "/omrade/{id}/{status}/wkt"
    [] c = "nvv" /\ t = "purposes" -> "/omrade/{id}/{status}/syften"
    [] c = "nvv" /\ t = "land_cover" -> "/omrade/{id}/{status}/nmdklasser"
    [] c = "nvv" /\ t = "env_goals" -> "/omrade/{id}/{status}/miljomal"
    [] c = "nvv" /\ t = "regulations" -> "/omrade/{id}/{status}/foreskriftsomraden"
    [] t = "list" -> "/omrade/nolinks"

\* The search parameters listAreas of a client sends: the ones it knows, as
\* given, and limit ?? 100.
ListParams(c, args) ==
  LET known == {"kommun", "lan", "namn"}
                 \cup (IF c = "n2000" THEN {"artnamn", "naturtypkod"} ELSE {})
                 \cup (IF c = "ramsar" THEN {"id"} ELSE {})
  IN  [f \in known \cup {"limit"} |->
         IF f = "limit"
         THEN LimitOrDefault(IF "limit" \in DOMAIN args THEN args.limit ELSE Undefined)
         ELSE IF f \in DOMAIN args THEN args[f] ELSE Undefined]

\* A client method at its call: the one request it sends.  nvvClient puts
\* the area and the decision status in the path, n2000Client and
\* ramsarClient the identifier; listAreas sends its search parameters.
DetailRequest(c, t, args) ==
  [client |-> c, type |-> t, ep |-> MethodPath(c, t),
   areaId |-> IF "kod" \in DOMAIN args THEN args.kod ELSE args.areaId,
   status |-> IF c = "nvv" /\ t # "list" THEN StatusOf(args) ELSE "",
   params |-> IF t = "list" THEN ListParams(c, args) ELSE <<>>]

\* The three Promise.all batches of nvv_get_area_detail with include = 'all'.
DetailBatches == << <<"geometry", "purposes">>,
                   <<"land_cover", "regulations">>,
                   <<"env_goals", "documents">> >>

\* The two Promise.all batches and the single await of nvv_n2000_detail with
\* include = 'all'.
N2000DetailBatches == << <<"species", "habitats">>,
                        <<"land_cover", "geometry">>,
                        <<"documents">> >>

\* What the call awaits, in order: each entry is one await over the client
\* calls it names.
AwaitPlan(args) ==
  CASE args.handler = "getAreaDetailHandler" ->
         IF IncludeOf(args) = "all" THEN DetailBatches ELSE << <<IncludeOf(args)>> >>
    [] args.handler = "n2000DetailHandler" ->
         << <<"area">> >>
         \o (IF IncludeOf(args) = "all" THEN N2000DetailBatches ELSE << <<IncludeOf(args)>> >>)
    [] args.handler \in DataHandlers -> << <<HandlerData(args.handler)>> >>
    [] args.handler = "none" -> << <<args.type>> >>

RECURSIVE SumLens(_, _)
SumLens(plan, m) == IF m = 0 THEN 0 ELSE Len(plan[m]) + SumLens(plan, m - 1)

\* The number of awaits whose requests have all been sent, n being sent.
AwaitsStarted(plan, n) == CHOOSE m \in 0..Len(plan) : SumLens(plan, m) = n

\* The client calls of one await are evaluated from left to right: each
\* sends its request, and the first that names a method the client does not
\* have throws, before the calls after it are made.  The promises made
\* before the throw are left without anyone awaiting them.
StartBatch(c, batch, args) ==
  LET missing == {j \in DOMAIN batch : batch[j] \notin ClientMethods(c)}
      n == IF missing = {} THEN Len(batch) ELSE SetMin(missing) - 1
  IN  [fetches |-> [j \in 1..n |-> [Fetch(DetailRequest(c, batch[j], args))
                                     EXCEPT !.orphan = (missing # {})]],
       thrown |-> missing # {}]

\* transformArea of n2000Client and of ramsarClient: the name of each field
\* of the result and the field of the upstream record it is taken from.
AreaFields(c) ==
  IF c = "n2000"
  THEN [kod |-> "kod", name |-> "namn", area_type |-> "omradestypkod", county |-> "lan",
        municipalities |-> "kommun", area_ha |-> "areaHa", land_area_ha |-> "landareaHa",
        water_area_ha |-> "vattenareaHa", forest_area_ha |-> "skogAreaHa",
        decision_date |-> "beslutsdatum", quality |-> "kvalitet", character |-> "karaktar"]
  ELSE [id |-> "id", name |-> "namn", protection_type |-> "skyddstyp", nation |-> "nation",
        county |-> "lanAsText", municipalities |-> "kommunerAsText",
        total_area_ha |-> "totalArealHA", shape_area_ha |-> "shapeAreaHA",
        land_area_ha |-> "landHA", forest_area_ha |-> "skogHA", water_area_ha |-> "vattenHA",
        original_decision |-> "ursprungligtBeslut", latest_decision |-> "senastBeslut",
        legal_act |-> "legalAct"]

\* What an endpoint may answer: an error, or its data: a list of areas,
\* the geometry of the area, the record of a single area (its identifier
\* under kod or id, and a value for each other field), or a list of
\* records (one for area "A", two for any other).
DetailResponses(req) ==
  IF req.type = "list"
  THEN {Throw(DetailTransportError)}
         \cup {Ok(as) : as \in UNION {[1..n -> Ids] : n \in 0..MaxAreas}}
  ELSE {Throw(DetailTransportError),
        Ok(CASE req.type = "geometry" -> UpstreamGeom(req.areaId)
             [] req.type = "area" ->
                  LET raw == {AreaFields(req.client)[f] : f \in DOMAIN AreaFields(req.client)}
                  IN  [f \in raw |-> IF f \in {"kod", "id"} THEN W(req.areaId) ELSE W(f)]
             [] OTHER -> IF req.areaId = "A" THEN <<W(req.ep)>>
                         ELSE <<W(req.ep), W(req.ep)>>)}

\* The other transform* functions of the clients: one result record per
\* upstream record, holding its fields under the names of the result.
transformRecord(req, x) == [client |-> req.client, type |-> req.type, of |-> x]

\* What the client method returns for the answer of its request:
\* nvvClient.getAreaWkt and n2000Client.getAreaTypes return it as it came,
\* getAreaWkt of the other clients reprojects the geometry, getArea
\* renames the fields of the one area and the other methods map the list
\* they got.
MethodResult(req, v) ==
  CASE req.type = "geometry" -> IF req.client = "nvv" THEN v ELSE convertWktToWgs84(v)
    [] req.type = "area_types" -> v
    [] req.type = "area" ->
         [f \in DOMAIN AreaFields(req.client) |-> v[AreaFields(req.client)[f]]]
    [] req.type = "list" ->
         [i \in DOMAIN v |-> IF req.client = "n2000" THEN [kod |-> v[i]]
                              ELSE transformArea(v[i])]
    [] OTHER -> [i \in DOMAIN v |-> transformRecord(req, v[i])]

\* What the caller gets when the call throws: the error result of
\* withErrorHandling from a handler, the rejection from a client method.
Failure(args, msg) ==
  IF args.handler = "none" THEN [st |-> "rejected", err |-> msg] ELSE ToolError(msg)

\* A call starts: it sends the requests of its first await, or throws when
\* that await names a method the client does not have.
detailHandlerCalled(k, args) ==
  /\ MayStartTool(k, args)
  /\ targs' = Set(targs, k, args)
  /\ LET s == StartBatch(DetailClient(args), AwaitPlan(args)[1], args)
     IN  /\ fetches' = Set(fetches, k, s.fetches)
         /\ IF s.thrown
            THEN tres' = Set(tres, k, Failure(args, MissingMethodError))
                 /\ tool' = Set(tool, k, "done")
            ELSE tres' = tres
                 /\ tool' = Set(tool, k, IF args.handler = "none" THEN args.client
                                         ELSE args.handler)
  /\ UNCHANGED <<proc, extentVars, wktVars, searchVars, projVars>>

\* nvv_get_area_detail is called: with include = 'all' (the default) the
\* first batch of two fetches is started, with a single include type the one
\* fetch of that type; include = 'documents' calls
\* nvvClient.getAreaDocuments, which does not exist.
getAreaDetailHandler(k, args) ==
  /\ args.handler = "getAreaDetailHandler"
  /\ detailHandlerCalled(k, args)

\* nvv_n2000_detail is called: n2000Client.getArea(kod) is awaited first.
n2000DetailHandler(k, args) ==
  /\ args.handler = "n2000DetailHandler"
  /\ detailHandlerCalled(k, args)

\* nvv_get_area_purposes is called: nvvClient.getAreaPurposes(areaId, status).
getAreaPurposesHandler(k, args) ==
  /\ args.handler = "getAreaPurposesHandler"
  /\ detailHandlerCalled(k, args)

\* nvv_get_area_land_cover is called: nvvClient.getAreaLandCover(areaId, status).
getAreaLandCoverHandler(k, args) ==
  /\ args.handler = "getAreaLandCoverHandler"
  /\ detailHandlerCalled(k, args)

\* nvv_get_area_regulations is called: nvvClient.getAreaRegulations(areaId, status).
getAreaRegulationsHandler(k, args) ==
  /\ args.handler = "getAreaRegulationsHandler"
  /\ detailHandlerCalled(k, args)

\* nvv_get_area_environmental_goals is called:
\* nvvClient.getAreaEnvironmentalGoals(areaId, status).
getAreaEnvironmentalGoalsHandler(k, args) ==
  /\ args.handler = "getAreaEnvironmentalGoalsHandler"
  /\ detailHandlerCalled(k, args)

\* nvv_get_area_documents is called: nvvClient.getAreaDocuments does not
\* exist, the call throws before any request is sent.
getAreaDocumentsHandler(k, args) ==
  /\ args.handler = "getAreaDocumentsHandler"
  /\ detailHandlerCalled(k, args)

\* A method of nvvClient is called on the client itself: listAreas,
\* getAreaPurposes, getAreaLandCover, getAreaEnvironmentalGoals or
\* getAreaRegulations sends its one request.
nvvClientCall(k, args) ==
  /\ args.handler = "none" /\ args.client = "nvv"
  /\ detailHandlerCalled(k, args)

\* A method of n2000Client is called on the client itself: listAreas,
\* getArea, getAreaSpecies, getAreaHabitats, getAreaLandCover,
\* getAreaDocuments, getAllSpecies, getSpeciesByGroup, getAllHabitats or
\* getAreaTypes sends its one request.
n2000ClientCall(k, args) ==
  /\ args.handler = "none" /\ args.client = "n2000"
  /\ detailHandlerCalled(k, args)

\* A method of ramsarClient is called on the client itself: listAreas,
\* getArea, getAreaLandCover or getProtectionTypes sends its one request.
ramsarClientCall(k, args) ==
  /\ args.handler = "none" /\ args.client = "ramsar"
  /\ detailHandlerCalled(k, args)

\* The result object a detail handler returns once every fetch has
\* answered: nvv_get_area_detail names the area and the status it was asked
\* for, nvv_n2000_detail copies kod, name, area_type, county, municipalities
\* and area_ha from the area record n2000Client.getArea returned.
DetailResult(args, fs) ==
  LET data == {<<fs[j].req.type, MethodResult(fs[j].req, fs[j].answer.v)>> :
                 j \in {i \in DOMAIN fs : fs[i].req.type # "area"}}
  IN  IF args.handler = "getAreaDetailHandler"
      THEN [st |-> "ok", areaId |-> args.areaId, status |-> StatusOf(args),
            coordinate_system |-> DetailCoordinateSystem, data |-> data]
      ELSE LET area == MethodResult(fs[1].req, fs[1].answer.v)
           IN  [st |-> "ok", kod |-> area.kod, name |-> area.name,
                area_type |-> area.area_type, county |-> area.county,
                municipalities |-> area.municipalities, area_ha |-> area.area_ha,
                coordinate_system |-> DetailCoordinateSystem, data |-> data]

\* What the call returns once every fetch has answered: a client method
\* what it made of the answer; a handler for one kind of data the area, the
\* status, the number of records and the records; a detail handler its
\* result object.
CallResult(args, fs) ==
  CASE args.handler = "none" ->
         [st |-> "resolved", v |-> MethodResult(fs[1].req, fs[1].answer.v)]
    [] args.handler \in DataHandlers ->
         LET records == MethodResult(fs[1].req, fs[1].answer.v)
         IN  [st |-> "ok", areaId |-> args.areaId, status |-> StatusOf(args),
              count |-> Len(records), field |-> ResultField(args.handler),
              records |-> records]
    [] OTHER -> DetailResult(args, fs)

\* A fetch of a call settles.  A failure rejects the awaited Promise.all (or
\* the single await) and the call returns the error; when every fetch of
\* the await has resolved the next await is started, and the handler
\* returns the TypeError when that one names a missing method, or after the
\* last await the result.  A fetch that settles after the call has returned
\* changes nothing, unless it fails and no one awaits it: the rejection is
\* unhandled and ends the process.
detailFetchSettled(k, i, resp) ==
  /\ proc = "running"
  /\ tool[k] # "idle" /\ targs[k].handler # "listProtectedAreasHandler"
  /\ i \in Pending(fetches[k])
  /\ LET fs == [fetches[k] EXCEPT ![i] = [@ EXCEPT !.st = IF resp.ok THEN "ok" ELSE "failed",
                                                   !.answer = Res(resp)]]
         plan == AwaitPlan(targs[k])
     IN  IF tool[k] = "done"
         THEN /\ fetches' = Set(fetches, k, fs)
              /\ proc' = IF ~resp.ok /\ fetches[k][i].orphan THEN "exited" ELSE proc
              /\ UNCHANGED <<tool, tres>>
         ELSE IF ~resp.ok
         THEN /\ fetches' = Set(fetches, k, fs)
              /\ tres' = Set(tres, k, Failure(targs[k], resp.err))
              /\ tool' = Set(tool, k, "done")
              /\ proc' = proc
         ELSE IF Pending(fs) # {}
         THEN fetches' = Set(fetches, k, fs) /\ UNCHANGED <<tool, tres, proc>>
         ELSE IF AwaitsStarted(plan, Len(fs)) < Len(plan)
         THEN LET s == StartBatch(DetailClient(targs[k]),
                                  plan[AwaitsStarted(plan, Len(fs)) + 1], targs[k])
              IN  /\ fetches' = Set(fetches, k, fs \o s.fetches)
                  /\ proc' = proc
                  /\ IF s.thrown
                     THEN tres' = Set(tres, k, Failure(targs[k], MissingMethodError))
                          /\ tool' = Set(tool, k, "done")
                     ELSE UNCHANGED <<tool, tres>>
         ELSE /\ fetches' = Set(fetches, k, fs)
              /\ tres' = Set(tres, k, CallResult(targs[k], fs))
              /\ tool' = Set(tool, k, "done")
              /\ proc' = proc
  /\ UNCHANGED <<targs, extentVars, wktVars, searchVars, projVars>>

\* The call has returned and its requests have settled: nothing of the call
\* is kept.
toolCallReturned(k) ==
  /\ proc = "running"
  /\ tool[k] = "done" /\ Pending(fetches[k]) = {}
  /\ tool' = Set(tool, k, "idle") /\ targs' = Set(targs, k, NoArgs)
  /\ fetches' = Set(fetches, k, <<>>) /\ tres' = Set(tres, k, NoToolResult)
  /\ UNCHANGED <<proc, extentVars, wktVars, searchVars, projVars>>

InitTools ==
  /\ ToolsIdle /\ SearchIdle /\ ProjIdle
  /\ ExtentIdle
  /\ wktIn = <<>> /\ boxesIn = <<>> /\ fn = "none" /\ ret = NoResult

NextTools ==
  \/ \E k \in ToolSlots, args \in ListArgs : listProtectedAreasHandler(k, args)
  \/ \E k \in ToolSlots, resp \in ListResponses : listAreasSettled(k, resp)
  \/ \E k \in ToolSlots, args \in DetailArgs : getAreaDetailHandler(k, args)
  \/ \E k \in ToolSlots, args \in N2000DetailArgs : n2000DetailHandler(k, args)
  \/ \E k \in ToolSlots, args \in DataArgs : getAreaPurposesHandler(k, args)
  \/ \E k \in ToolSlots, args \in DataArgs : getAreaLandCoverHandler(k, args)
  \/ \E k \in ToolSlots, args \in DataArgs : getAreaRegulationsHandler(k, args)
  \/ \E k \in ToolSlots, args \in DataArgs : getAreaEnvironmentalGoalsHandler(k, args)
  \/ \E k \in ToolSlots, args \in DataArgs : getAreaDocumentsHandler(k, args)
  \/ \E k \in ToolSlots, args \in ClientArgs("nvv") : nvvClientCall(k, args)
  \/ \E k \in ToolSlots, args \in ClientArgs("n2000") : n2000ClientCall(k, args)
  \/ \E k \in ToolSlots, args \in ClientArgs("ramsar") : ramsarClientCall(k, args)
  \/ \E k \in ToolSlots : targs[k].handler # "listProtectedAreasHandler" /\
       \E i \in DOMAIN fetches[k] :
         \E resp \in DetailResponses(fetches[k][i].req) : detailFetchSettled(k, i, resp)
  \/ \E k \in ToolSlots : toolCallReturned(k)

SpecTools == InitTools /\ [][NextTools]_vars

\* ------------------------------------------------------------------------
\* Lookup search (src/lib/search-helpers.ts)
\* ------------------------------------------------------------------------
MaxSearchItems == 3

\* A string is a sequence of characters.  The sample alphabet: a, A, b, B.
ToLowerChar(c) == CASE c = "A" -> "a" [] c = "B" -> "b" [] OTHER -> c
toLowerCase(str) == [i \in DOMAIN str |-> ToLowerChar(str[i])]

\* String.prototype.includes
RECURSIVE includes(_, _)
includes(str, q) ==
  IF Len(q) > Len(str) THEN FALSE
  ELSE IF SubSeq(str, 1, Len(q)) = q THEN TRUE
  ELSE includes(Tail(str), q)

\* The alphabetical rank of a letter in the Swedish collation.
Rank(c) == IF ToLowerChar(c) = "a" THEN 1 ELSE 2
IsUpper(c) == ToLowerChar(c) # c

\* Lexicographic comparison of two sequences of integers: -1, 0 or 1.
RECURSIVE LexCompare(_, _)
LexCompare(u, v) ==
  IF u = <<>> /\ v = <<>> THEN 0
  ELSE IF u = <<>> THEN -1
  ELSE IF v = <<>> THEN 1
  ELSE IF Head(u) < Head(v) THEN -1
  ELSE IF Head(u) > Head(v) THEN 1
  ELSE LexCompare(Tail(u), Tail(v))

\* a.localeCompare(b, 'sv'): by letters first, then lower case before upper
\* case at the first place where only the case differs.
localeCompare(a, b) ==
  LET letters == LexCompare([i \in DOMAIN a |-> Rank(a[i])], [i \in DOMAIN b |-> Rank(b[i])])
  IN  IF letters # 0 THEN letters
      ELSE LexCompare([i \in DOMAIN a |-> IF IsUpper(a[i]) THEN 1 ELSE 0],
                      [i \in DOMAIN b |-> IF IsUpper(b[i]) THEN 1 ELSE 0])

\* Mutant of SortCompare: the exact matches are not put first.
SortCompare_byNameOnly(a, b, lowerQuery) == localeCompare(a.name, b.name)

\* The comparator of matches.sort
SortCompare(a, b, lowerQuery) ==
  LET aExact == toLowerCase(a.name) = lowerQuery
      bExact == toLowerCase(b.name) = lowerQuery
  IN  IF aExact /\ ~bExact THEN -1
      ELSE IF ~aExact /\ bExact THEN 1
      ELSE localeCompare(a.name, b.name)

\* Array.prototype.sort (stable): x is inserted behind every element that
\* does not compare greater than it.
RECURSIVE InsertSorted(_, _, _)
InsertSorted(x, sorted, lowerQuery) ==
  IF sorted = <<>> THEN <<x>>
  ELSE IF SortCompare(Head(sorted), x, lowerQuery) <= 0
       THEN <<Head(sorted)>> \o InsertSorted(x, Tail(sorted), lowerQuery)
       ELSE <<x>> \o sorted

RECURSIVE Sort(_, _, _)
Sort(ms, sorted, lowerQuery) ==
  IF ms = <<>> THEN sorted
  ELSE Sort(Tail(ms), InsertSorted(Head(ms), sorted, lowerQuery), lowerQuery)

\* searchAndSort(items, query)
searchAndSort(its, q) ==
  LET lowerQuery == toLowerCase(q)
      matches == SelectSeq(its, LAMBDA item : includes(toLowerCase(item.name), lowerQuery))
  IN  Sort(matches, <<>>, lowerQuery)

\* The names of the lookup data and the search texts.
Names == {<<"a">>, <<"A", "b">>, <<"a", "B">>, <<"b">>, <<"B", "a">>, <<"a", "b", "a">>}
Queries == {<<>>, <<"a">>, <<"A">>, <<"a", "b">>, <<"A", "B">>, <<"b">>, <<"b", "b">>}

\* matches.slice(0, 20): the municipality lookups return at most 20 records.
MaxMunicipalityResults == 20

\* Array.prototype.slice(start, end)
slice(arr, start, end) == SubSeq(arr, start + 1, IF end < Len(arr) THEN end ELSE Len(arr))

\* A long list of lookup data: n records whose names run through the sample
\* names again and again.
NameCycle == << <<"a">>, <<"A", "b">>, <<"b">>, <<"a", "B">>, <<"B", "a">>, <<"a", "b", "a">> >>
LongList(n) == [i \in 1..n |-> [name |-> NameCycle[((i - 1) % Len(NameCycle)) + 1], code |-> i]]

\* The lookup data: records with a name and a code, the code telling the
\* records apart.  Every list of up to MaxSearchItems records, and three
\* lists of about as many records as the municipality lookups return at
\* most.
ItemLists ==
  UNION {{[i \in 1..n |-> [name |-> ns[i], code |-> i]] : ns \in [1..n -> Names]} :
           n \in 0..MaxSearchItems}
    \cup {LongList(MaxMunicipalityResults), LongList(MaxMunicipalityResults + 1),
          LongList(MaxMunicipalityResults + 5)}

\* nvv_lookup looks up municipalities or counties.
LOOKUP_TYPES == {"municipality", "county"}

InitSearch ==
  /\ ToolsIdle /\ ProjIdle
  /\ ExtentIdle
  /\ wktIn = <<>> /\ boxesIn = <<>> /\ fn = "none" /\ ret = NoResult
  /\ items \in ItemLists /\ query \in Queries /\ hits = NoSearch

searchAndSortCall ==
  /\ hits = NoSearch
  /\ hits' = [fn |-> "searchAndSort", matches |-> searchAndSort(items, query)]
  /\ UNCHANGED <<items, query, extentVars, wktVars, toolVars, projVars>>

\* nvv_lookup_county: every match is returned.
lookupCountyHandler ==
  /\ hits = NoSearch
  /\ LET matches == searchAndSort(items, query)
     IN  hits' = [fn |-> "lookupCountyHandler", matches |-> matches,
                   query |-> query, count |-> Len(matches), counties |-> matches]
  /\ UNCHANGED <<items, query, extentVars, wktVars, toolVars, projVars>>

\* nvv_lookup_municipality: the count is that of all the matches, of which
\* the first 20 are returned.
lookupMunicipalityHandler ==
  /\ hits = NoSearch
  /\ LET matches == searchAndSort(items, query)
     IN  hits' = [fn |-> "lookupMunicipalityHandler", matches |-> matches,
                   query |-> query, count |-> Len(matches),
                   municipalities |-> slice(matches, 0, MaxMunicipalityResults)]
  /\ UNCHANGED <<items, query, extentVars, wktVars, toolVars, projVars>>

\* nvv_lookup: the municipalities are cut to the first 20 matches, the
\* counties are returned whole; the count is that of all the matches.
lookupHandler(type) ==
  /\ hits = NoSearch
  /\ LET matches == searchAndSort(items, query)
     IN  hits' = [fn |-> "lookupHandler", matches |-> matches,
                   type |-> type, query |-> query, count |-> Len(matches),
                   results |-> IF type = "municipality"
                               THEN slice(matches, 0, MaxMunicipalityResults)
                               ELSE matches]
  /\ UNCHANGED <<items, query, extentVars, wktVars, toolVars, projVars>>

NextSearch ==
  \/ searchAndSortCall
  \/ lookupCountyHandler
  \/ lookupMunicipalityHandler
  \/ \E type \in LOOKUP_TYPES : lookupHandler(type)

SpecSearch == InitSearch /\ [][NextSearch]_vars

\* ------------------------------------------------------------------------
\* Direct calls of the projection converter (src/lib/coordinates.ts)
\* ------------------------------------------------------------------------
MaxLog == 3

\* The points of the sample grid.
GridPoints == {500000, 600000, 700000} \X {6500000, 6600000, 6700000}

\* sweref99ToWgs84(point) is called: it returns the longitude and latitude
\* proj4 gives for the point.  The call has no proj4.defs in it: the
\* registry stays as the module load left it.
sweref99ToWgs84Call(point) ==
  /\ Len(projLog) < MaxLog
  /\ projLog' = Append(projLog,
                       [point |-> point,
                        out |-> sweref99ToWgs84([x |-> Num(point[1], 0), y |-> Num(point[2], 0)])])
  /\ projDefs' = projDefs
  /\ UNCHANGED <<extentVars, wktVars, toolVars, searchVars>>

InitProj ==
  /\ AuxIdle
  /\ ExtentIdle
  /\ wktIn = <<>> /\ boxesIn = <<>> /\ fn = "none" /\ ret = NoResult

NextProj == \E point \in GridPoints : sweref99ToWgs84Call(point)

SpecProj == InitProj /\ [][NextProj]_vars

\* ------------------------------------------------------------------------
\* Properties
\* ------------------------------------------------------------------------
IsExtentCall(k) == call[k].op = "getAreasExtent"
FallbackCall(k) == IsExtentCall(k) /\ HasFallback(call[k].client)

\* The call runs computeExtentClientSide when path[k] = "fallback": as the
\* fallback of getAreasExtent, or called on the client itself.
ClientSideCall(k) ==
  call[k].op \in {"getAreasExtent", "computeExtentClientSide"} /\ HasFallback(call[k].client)

ExtentReqCount(k) == Cardinality({i \in DOMAIN reqs[k] : reqs[k][i].ep = "extentAsWkt"})
WktReqCount(k) == Cardinality({i \in DOMAIN reqs[k] : reqs[k][i].ep = "wkt"})

\* The primary answer is a failure: thrown, empty, or not starting with POLYGON.
PrimaryFailed(k) == primary[k].st = "error" \/ primary[k].v = <<>> \/ ~StartsWithPolygon(primary[k].v)

\* The rectangle around the reprojected coordinates of a set of areas,
\* computed over the set (no order involved).
WgsX(p) == parseFloat(toFixed6(Proj4Table(p[1], p[2])[1]))
WgsY(p) == parseFloat(toFixed6(Proj4Table(p[1], p[2])[2]))
NumMin(S) == CHOOSE m \in S : \A x \in S : NumLE(m, x)
NumMax(S) == CHOOSE m \in S : \A x \in S : NumLE(x, m)
SetBox(P) == [minX |-> NumMin({WgsX(p) : p \in P}), maxX |-> NumMax({WgsX(p) : p \in P}),
              minY |-> NumMin({WgsY(p) : p \in P}), maxY |-> NumMax({WgsY(p) : p \in P})]

\* C1: getAreasExtent of n2000Client / ramsarClient runs the fallback exactly
\* when the primary request threw or answered with a body that is empty or
\* does not start with "POLYGON" (both cases alike); then the caller gets the
\* fallback's outcome (the extent of the fetched geometries, or the fallback's
\* error, never the primary's), and otherwise no per-area fetch is issued.
C1_FallbackExactlyOnPrimaryFailure ==
  \A k \in CallSlots :
    FallbackCall(k) =>
      /\ primary[k].st = "none" => (path[k] = "none" /\ WktReqCount(k) = 0 /\ outcome[k].st = "none")
      /\ primary[k].st # "none" =>
           /\ (path[k] = "fallback") <=> PrimaryFailed(k)
           /\ (path[k] = "primary") <=> ~PrimaryFailed(k)
           /\ ~PrimaryFailed(k) => (WktReqCount(k) = 0 /\ slots[k] = <<>>)
           /\ (PrimaryFailed(k) /\ outcome[k].st = "ok") =>
                /\ AllOk(slots[k]) /\ Len(slots[k]) = Len(call[k].ids)
                /\ outcome[k].v = boundingBoxToWkt(SetBox(AllPoints(call[k].ids)))
           /\ (PrimaryFailed(k) /\ outcome[k].st = "error") =>
                outcome[k].err \in {WktTransportError, EmptyGeometryError, EmptyInputError}

C1_Witness ==
  \E k \in CallSlots :
    /\ FallbackCall(k) /\ primary[k].st = "ok" /\ primary[k].v = OracleError
    /\ path[k] = "fallback" /\ outcome[k].st = "ok"

\* C2: during a fallback computation at most 2 per-area fetches are started
\* and not yet settled, in every reachable state.
C2_AtMostTwoInFlight == \A k \in CallSlots : Cardinality(InFlight(slots[k])) <= 2

C2_Witness ==
  \E k \in CallSlots :
    /\ path[k] = "fallback" /\ Len(call[k].ids) = 3
    /\ Cardinality(InFlight(slots[k])) = 2 /\ Queued(slots[k]) # {}

\* C3: in the fallback, once one per-area fetch has failed getAreasExtent
\* fails: a successful result is computed from the geometries of all the
\* identifiers, never from a subset.
C3_OneFailureFailsAll ==
  \A k \in CallSlots :
    (ClientSideCall(k) /\ path[k] = "fallback") =>
      /\ (\E i \in DOMAIN slots[k] : slots[k][i].st = "failed") => outcome[k].st = "error"
      /\ outcome[k].st = "ok" => (Len(slots[k]) = Len(call[k].ids) /\ AllOk(slots[k]))

C3_Witness ==
  \E k \in CallSlots :
    /\ FallbackCall(k) /\ path[k] = "fallback" /\ outcome[k].st = "error"
    /\ \E i \in DOMAIN slots[k] : slots[k][i].st = "failed"
    /\ \E i \in DOMAIN slots[k] : slots[k][i].st = "ok"

\* C4 (as claimed, for every client): getAreasExtent issues exactly one
\* bulk-extent request carrying all the identifiers, and when the answer
\* starts with "POLYGON" it returns the reprojection of that answer without
\* any per-area fetch.
C4_PrimaryReturnsReprojection ==
  \A k \in CallSlots :
    (IsExtentCall(k) /\ pc[k] # "idle") =>
      /\ ExtentReqCount(k) = 1 /\ reqs[k][1] = ExtentRequest(call[k].ids)
      /\ (primary[k].st = "ok" /\ StartsWithPolygon(primary[k].v) /\ outcome[k].st # "none") =>
           /\ outcome[k].st = "ok"
           /\ outcome[k].v = convertWktToWgs84(primary[k].v)
           /\ WktReqCount(k) = 0

\* Bounds in units of 1e-6 degree, and the rounding tolerance of 6 decimals.
Micro(x) == x.n * Pow10(6 - x.d)
Close(a, b) == Micro(a) - Micro(b) \in -1..1
SameBounds(p, q) == /\ Close(p.minX, q.minX) /\ Close(p.maxX, q.maxX)
                    /\ Close(p.minY, q.minY) /\ Close(p.maxY, q.maxY)

\* What the primary path returns for ids when the upstream extent works.
PrimaryResult(ids) == convertWktToWgs84(UpstreamExtent(ids))

\* C5 (as claimed): for the same identifiers the polygon returned by the
\* fallback has the same bounds, within rounding, as the polygon the
\* primary path returns.
C5_FallbackTransparency ==
  \A k \in CallSlots :
    (FallbackCall(k) /\ path[k] = "fallback" /\ outcome[k].st = "ok") =>
      LET p == extractBoundingBoxFromWkt(PrimaryResult(call[k].ids))
          f == extractBoundingBoxFromWkt(outcome[k].v)
      IN  p.ok /\ f.ok /\ SameBounds(p.v, f.v)

\* C6: the extent returned for a list of identifiers depends only on the set
\* of identifiers: not on their order in the list, nor (in the fallback) on
\* the order in which the fetches complete.
C6_OrderInvariant ==
  \A k \in CallSlots :
    (FallbackCall(k) /\ outcome[k].st = "ok") =>
      outcome[k].v = IF path[k] = "primary" THEN PrimaryResult(call[k].ids)
                  ELSE boundingBoxToWkt(SetBox(AllPoints(call[k].ids)))

C6_Witness ==
  \E k \in CallSlots :
    /\ FallbackCall(k) /\ path[k] = "fallback" /\ outcome[k].st = "ok"
    /\ call[k].ids = <<"B", "A", "B">>

\* C7: no negative caching. Every getAreasExtent call starts with the
\* bulk-extent request, whatever happened to earlier primary attempts, and
\* an answer starting with "POLYGON" is returned through the primary path.
C7_NoNegativeCaching ==
  [][\A k \in CallSlots :
     /\ (pc[k] = "idle" /\ call'[k].op = "getAreasExtent") =>
          (pc'[k] = "primary" /\ reqs'[k] = <<ExtentRequest(call'[k].ids)>> /\ path'[k] = "none")
     /\ (pc[k] = "primary" /\ primary'[k].st = "ok" /\ StartsWithPolygon(primary'[k].v)) =>
          (path'[k] = "primary" /\ outcome'[k].st = "ok" /\ reqs'[k] = reqs[k])]_vars

C7_Witness ==
  \E k \in CallSlots :
    /\ FallbackCall(k) /\ primaryBroken /\ calls >= 1
    /\ path[k] = "primary" /\ outcome[k].st = "ok"

\* C8: a failure of the primary request never reaches the caller of
\* getAreasExtent (n2000Client / ramsarClient), a failure of the fallback
\* always does: a failed fetch, a geometry without coordinates and an empty
\* identifier list each end the call with that error, and no request is
\* issued a second time.
C8_PropagationPolicy ==
  \A k \in CallSlots :
    FallbackCall(k) =>
      /\ outcome[k].st = "error" =>
           (path[k] = "fallback" /\ outcome[k].err \notin {ExtentTransportError, InvalidWktError})
      /\ (\E i \in DOMAIN slots[k] : slots[k][i].st = "failed") =>
           (outcome[k].st = "error" /\ outcome[k].err = WktTransportError)
      /\ (path[k] = "fallback" /\ outcome[k].st # "none" /\ Len(call[k].ids) > 0 /\ AllOk(slots[k])
          /\ \E i \in DOMAIN call[k].ids : UpstreamPoints(call[k].ids[i]) = <<>>) =>
           (outcome[k].st = "error" /\ outcome[k].err = EmptyGeometryError)
      /\ (path[k] = "fallback" /\ Len(call[k].ids) = 0) =>
           (outcome[k].st = "error" /\ outcome[k].err = EmptyInputError)
      /\ ExtentReqCount(k) <= 1 /\ WktReqCount(k) <= Len(call[k].ids)

C8_Witness ==
  \E k \in CallSlots :
    /\ FallbackCall(k) /\ primary[k].st = "error" /\ path[k] = "fallback"
    /\ outcome[k].st = "error" /\ outcome[k].err = EmptyGeometryError

\* C9 (as claimed): every successful response of getAreaGeometry and
\* getAreasExtent declares WGS84 as its coordinate system.
C9_DeclaresWgs84 ==
  \A k \in CallSlots :
    response[k].st = "ok" => response[k].coordinate_system = "EPSG:4326 (WGS84)"

\* C10 (as claimed): the geometry getAreaWkt returns is, for every client,
\* the reprojection of the national-grid WKT the upstream sent.
C10_GeometryReprojected ==
  \A k \in CallSlots :
    (call[k].op = "getAreaWkt" /\ outcome[k].st = "ok") =>
      outcome[k].v = convertWktToWgs84(UpstreamGeom(call[k].ids[1]))

\* The outcome comes from the extraction / combination step of the fallback.
FromExtraction(o) ==
  o.st = "ok" \/ (o.st = "error" /\ o.err \in {EmptyGeometryError, EmptyInputError})

\* The fetches that settled in the step.
SettledInStep(k) ==
  {i \in DOMAIN slots[k] : slots[k][i].st = "inflight" /\ slots'[k][i].st \in {"ok", "failed"}}

\* C24: in the fallback the extraction and combination run only once every
\* per-area fetch has been started and has settled (none in flight, none
\* queued, none failed); and a fetch that settles writes its own slot only:
\* every other slot keeps its geometry, and changes at most from queued to
\* in flight.
C24_ExtractAfterAllSettled ==
  [][\A k \in CallSlots :
     (ClientSideCall(k) /\ path'[k] = "fallback") =>
       /\ (outcome[k].st = "none" /\ FromExtraction(outcome'[k])) =>
            /\ Len(slots'[k]) = Len(call[k].ids)
            /\ InFlight(slots'[k]) = {} /\ Queued(slots'[k]) = {} /\ AllOk(slots'[k])
            /\ WktReqCount(k)' = Len(call[k].ids)
       /\ (path[k] = "fallback" /\ slots'[k] # slots[k]) =>
            /\ Cardinality(SettledInStep(k)) = 1
            /\ \A j \in DOMAIN slots[k] \ SettledInStep(k) :
                 /\ slots'[k][j].wkt = slots[k][j].wkt
                 /\ slots'[k][j].st = slots[k][j].st
                    \/ (slots[k][j].st = "queued" /\ slots'[k][j].st = "inflight")
            /\ \A o \in CallSlots \ {k} : slots'[o] = slots[o]]_vars

\* A fallback over three areas whose fetches each resolved into its own slot,
\* and whose extent was then computed.
C24_Witness ==
  \E k \in CallSlots :
    /\ FallbackCall(k) /\ path[k] = "fallback" /\ outcome[k].st = "ok"
    /\ Len(call[k].ids) = 3 /\ call[k].ids[1] # call[k].ids[2] /\ AllOk(slots[k])
    /\ \A i \in DOMAIN slots[k] : slots[k][i].wkt = convertWktToWgs84(UpstreamGeom(call[k].ids[i]))

\* C25: getAreasExtent of n2000Client / ramsarClient is a try followed by one
\* fallback, not a retry loop.  A call issues the bulk-extent request once,
\* as its first request; the fallback starts at most once, in the step in
\* which the primary request settles; once the fallback has started its
\* batch of fetches is not started again and only per-area requests are
\* added, and once it has failed its error stands: the primary request is
\* not issued again.
C25_TryThenFallbackOnce ==
  [][\A k \in CallSlots :
     (FallbackCall(k)' /\ pc'[k] # "idle") =>
       /\ ExtentReqCount(k)' = 1 /\ reqs'[k][1] = ExtentRequest(call'[k].ids)
       /\ (path[k] # "fallback" /\ path'[k] = "fallback") =>
            (pc[k] = "primary" /\ primary[k].st = "none" /\ primary'[k].st # "none" /\ slots[k] = <<>>)
       /\ path[k] = "fallback" =>
            /\ path'[k] = "fallback" /\ primary'[k] = primary[k]
            /\ Len(reqs'[k]) >= Len(reqs[k]) /\ SubSeq(reqs'[k], 1, Len(reqs[k])) = reqs[k]
            /\ \A n \in (Len(reqs[k]) + 1)..Len(reqs'[k]) : reqs'[k][n].ep = "wkt"
            /\ Len(slots'[k]) = Len(slots[k])
            /\ outcome[k].st = "error" => (outcome'[k] = outcome[k] /\ pc'[k] # "primary")]_vars

\* A call whose primary request failed and whose fallback then failed too,
\* after an earlier call: one bulk-extent request in all.
C25_Witness ==
  \E k \in CallSlots :
    /\ FallbackCall(k) /\ calls >= 1 /\ primary[k].st = "error"
    /\ path[k] = "fallback" /\ outcome[k].st = "error" /\ outcome[k].err = WktTransportError
    /\ ExtentReqCount(k) = 1 /\ WktReqCount(k) >= 1

\* ------------------------------------------------------------------------
\* Properties of the WKT utilities (specification SpecWkt)
\* ------------------------------------------------------------------------

\* The coordinate pairs the pattern matches in wkt, as a set of points.
PairsOf(wkt) ==
  {<<parseFloat(wkt[m]), parseFloat(wkt[m + 2])>> : m \in SeqRange(Matches(wkt, 1))}

\* The bounds of a non-empty set of points, computed over the set.
BoundsOf(P) ==
  [minX |-> NumMin({p[1] : p \in P}), maxX |-> NumMax({p[1] : p \in P}),
   minY |-> NumMin({p[2] : p \in P}), maxY |-> NumMax({p[2] : p \in P})]

\* C11: for a WKT string with at least one coordinate pair,
\* extractBoundingBoxFromWkt returns the box whose minX / maxX are the least /
\* greatest x and whose minY / maxY are the least / greatest y over all the
\* matched pairs.
C11_ExtractIsMinMax ==
  (fn = "extractBoundingBoxFromWkt" /\ PairsOf(wktIn) # {}) =>
    (ret.st = "ok" /\ ret.v = BoundsOf(PairsOf(wktIn)))

C11_Witness ==
  /\ fn = "extractBoundingBoxFromWkt" /\ ret.st = "ok"
  /\ Len(Matches(wktIn, 1)) = 2
  /\ ret.v.minX = Canon(-15, 1) /\ ret.v.maxX = Canon(600000, 0)
  /\ ret.v.minY = Canon(2, 0) /\ ret.v.maxY = Canon(6600000, 0)

\* The pattern matches nowhere in wkt.
NoPair(wkt) == ~\E i \in DOMAIN wkt : PairAt(wkt, i)

GeometryCollectionEmpty == <<W("GEOMETRYCOLLECTION"), W(" "), W("EMPTY")>>

\* C12: extractBoundingBoxFromWkt throws the "no coordinates" error, and
\* returns no box, whenever its input holds no coordinate pair; "" and
\* "GEOMETRYCOLLECTION EMPTY" are such inputs.
C12_ExtractThrowsOnNoPair ==
  fn = "extractBoundingBoxFromWkt" =>
    /\ NoPair(wktIn) =>
         (ret.st = "error" /\ ret.err = EmptyGeometryError /\ ret.v = <<>>)
    /\ wktIn \in {<<>>, GeometryCollectionEmpty} => NoPair(wktIn)

C12_Witness ==
  /\ fn = "extractBoundingBoxFromWkt" /\ wktIn = GeometryCollectionEmpty
  /\ ret.st = "error" /\ ret.err = EmptyGeometryError

\* Box a contains box b.
Contains(a, b) == /\ NumLE(a.minX, b.minX) /\ NumLE(b.maxX, a.maxX)
                  /\ NumLE(a.minY, b.minY) /\ NumLE(b.maxY, a.maxY)

\* C13: for a non-empty collection of boxes combineBoundingBoxes returns the
\* box whose minX / minY are the least of the inputs' minX / minY and whose
\* maxX / maxY are the greatest of the inputs' maxX / maxY: a box that
\* contains every input box and is contained in every box that does.
C13_CombineIsMinMax ==
  (fn = "combineBoundingBoxes" /\ Len(boxesIn) >= 1) =>
    /\ ret.st = "ok"
    /\ ret.v = [minX |-> NumMin({boxesIn[i].minX : i \in DOMAIN boxesIn}),
                maxX |-> NumMax({boxesIn[i].maxX : i \in DOMAIN boxesIn}),
                minY |-> NumMin({boxesIn[i].minY : i \in DOMAIN boxesIn}),
                maxY |-> NumMax({boxesIn[i].maxY : i \in DOMAIN boxesIn})]
    /\ \A i \in DOMAIN boxesIn : Contains(ret.v, boxesIn[i])
    /\ \A c \in Boxes :
         (\A i \in DOMAIN boxesIn : Contains(c, boxesIn[i])) => Contains(c, ret.v)

C13_Witness ==
  /\ fn = "combineBoundingBoxes" /\ Len(boxesIn) = 3 /\ ret.st = "ok"
  /\ \A i \in DOMAIN boxesIn : ret.v # boxesIn[i]
  /\ boxesIn[1].minX # boxesIn[3].minX /\ boxesIn[1].maxY # boxesIn[2].maxY

\* Every side of the box is a finite number.
FiniteBox(b) == b.minX.inf = 0 /\ b.maxX.inf = 0 /\ b.minY.inf = 0 /\ b.maxY.inf = 0

\* C14: combineBoundingBoxes of an empty collection throws the "empty
\* array" error and returns nothing; no call returns a box with an infinite
\* side (the identity of the reduction).
C14_CombineThrowsOnEmpty ==
  fn = "combineBoundingBoxes" =>
    /\ Len(boxesIn) = 0 =>
         (ret.st = "error" /\ ret.err = EmptyInputError /\ ret.v = <<>>)
    /\ ret.st = "ok" => (Len(boxesIn) > 0 /\ FiniteBox(ret.v))

C14_Witness ==
  /\ fn = "combineBoundingBoxes" /\ boxesIn = <<>>
  /\ ret.st = "error" /\ ret.err = EmptyInputError

\* C15: combineBoundingBoxes gives the same result for every permutation of
\* its input: for any boxes A, B, C, each of the six orders of [A, B, C]
\* yields the same box.
C15_CombinePermutationInvariant ==
  (fn = "combineBoundingBoxes" /\ Len(boxesIn) >= 1) =>
    \A p \in Permutations(DOMAIN boxesIn) :
      Res(combineBoundingBoxes([i \in DOMAIN boxesIn |-> boxesIn[p[i]]])) = ret

C15_Witness ==
  /\ fn = "combineBoundingBoxes" /\ Len(boxesIn) = 3 /\ ret.st = "ok"
  /\ boxesIn[1] # boxesIn[2] /\ boxesIn[2] # boxesIn[3] /\ boxesIn[1] # boxesIn[3]
  /\ boxesIn[1].minY # boxesIn[2].minY /\ boxesIn[2].maxX # boxesIn[3].maxX
  /\ Res(combineBoundingBoxes(<<boxesIn[3], boxesIn[1], boxesIn[2]>>)) = ret

\* The vertices written in wkt, in order of appearance.
Vertices(wkt) ==
  LET ms == Matches(wkt, 1)
  IN  [k \in DOMAIN ms |-> <<parseFloat(wkt[ms[k]]), parseFloat(wkt[ms[k] + 2])>>]

\* How many times the word s occurs in wkt.
CountWord(wkt, s) == Cardinality({i \in DOMAIN wkt : wkt[i] = W(s)})

\* C16: boundingBoxToWkt writes a box as "POLYGON" followed by one ring
\* "((...))" of exactly five vertices: (minX,minY), (maxX,minY), (maxX,maxY),
\* (minX,maxY), (minX,minY), in this order, the last equal to the first.
C16_BoxToWktClosedRing ==
  fn = "boundingBoxToWkt" =>
    LET box == boxesIn[1]
        out == ret.v
    IN  /\ ret.st = "ok"
        /\ SubSeq(out, 1, 4) = <<W("POLYGON"), W(" "), W("("), W("(")>>
        /\ SubSeq(out, Len(out) - 1, Len(out)) = <<W(")"), W(")")>>
        /\ CountWord(out, "(") = 2 /\ CountWord(out, ")") = 2
        /\ CountWord(out, ",") = 4
        /\ Vertices(out) = <<<<box.minX, box.minY>>, <<box.maxX, box.minY>>,
                             <<box.maxX, box.maxY>>, <<box.minX, box.maxY>>,
                             <<box.minX, box.minY>>>>
        /\ Vertices(out)[5] = Vertices(out)[1]

C16_Witness ==
  /\ fn = "boundingBoxToWkt" /\ ret.st = "ok"
  /\ boxesIn = <<[minX |-> Canon(-15, 1), maxX |-> Canon(2, 0),
                  minY |-> Canon(-15, 1), maxY |-> Canon(2, 0)]>>
  /\ Len(Vertices(ret.v)) = 5

\* minX <= maxX and minY <= maxY
ValidBox(b) == NumLE(b.minX, b.maxX) /\ NumLE(b.minY, b.maxY)

\* The boxes extractBoundingBoxFromWkt returns for the sample WKT strings.
ExtractedBoxes ==
  {extractBoundingBoxFromWkt(w).v : w \in {u \in WktInputs : extractBoundingBoxFromWkt(u).ok}}

\* C17: every box extractBoundingBoxFromWkt returns, and every box
\* combineBoundingBoxes returns for boxes that were so extracted, has
\* minX <= maxX and minY <= maxY; a string with a single coordinate pair is
\* extracted without error to the box with minX = maxX and minY = maxY.
C17_BoxInvariant ==
  /\ (fn = "extractBoundingBoxFromWkt" /\ ret.st = "ok") => ValidBox(ret.v)
  /\ (fn = "extractBoundingBoxFromWkt" /\ Len(Matches(wktIn, 1)) = 1) =>
       (ret.st = "ok" /\ ret.v.minX = ret.v.maxX /\ ret.v.minY = ret.v.maxY)
  /\ (/\ fn = "combineBoundingBoxes" /\ ret.st = "ok"
      /\ \A i \in DOMAIN boxesIn : boxesIn[i] \in ExtractedBoxes) => ValidBox(ret.v)

C17_Witness ==
  /\ fn = "extractBoundingBoxFromWkt"
  /\ wktIn = <<W("POINT"), W(" "), W("("), Num(-15, 1), W(" "), Num(200, 2), W(")")>>
  /\ ret.st = "ok"
  /\ ret.v.minX = Canon(-15, 1) /\ ret.v.maxX = Canon(-15, 1)
  /\ ret.v.minY = Canon(2, 0) /\ ret.v.maxY = Canon(2, 0)

\* The token positions of wkt that belong to a matched coordinate pair.
Covered(wkt) ==
  UNION {{m, m + 1, m + 2} : m \in SeqRange(Matches(wkt, 1))}

\* A numeral of degrees lies between lo and hi degrees.
DegreesIn(tok, lo, hi) ==
  /\ IsNum(tok) /\ tok.d = 6
  /\ lo * Pow10(6) <= tok.n /\ tok.n <= hi * Pow10(6)

\* C18: convertWktToWgs84 replaces each matched coordinate pair, at its
\* place, by the reprojected pair written "longitude latitude" with six
\* decimals, and leaves everything outside the matched pairs (keywords,
\* parentheses, commas, unmatched numbers) unchanged at the same place; the
\* result holds as many coordinate pairs as the input.
C18_ConvertFrame ==
  fn = "convertWktToWgs84" =>
    LET out == ret.v
        ms == Matches(wktIn, 1)
    IN  /\ ret.st = "ok"
        /\ Len(out) = Len(wktIn)
        /\ \A i \in DOMAIN wktIn \ Covered(wktIn) : out[i] = wktIn[i]
        /\ \A k \in DOMAIN ms :
             LET m == ms[k]
                 r == Proj4Table(wktIn[m].n, wktIn[m + 2].n)
             IN  /\ out[m] = toFixed6(r[1]) /\ DegreesIn(out[m], 14, 20)
                 /\ out[m + 1] = W(" ")
                 /\ out[m + 2] = toFixed6(r[2]) /\ DegreesIn(out[m + 2], 58, 61)
        /\ Matches(out, 1) = ms

C18_Witness ==
  /\ fn = "convertWktToWgs84" /\ ret.st = "ok"
  /\ wktIn = <<W("POLYGON"), W(" "), W("("), W("("),
               Num(600000, 0), W(" "), Num(6600000, 0), W(" "), Num(12, 0),
               W(","), W(" "), Num(700000, 0), W(" "), Num(6500000, 0),
               W(")"), W(")")>>
  /\ ret.v = <<W("POLYGON"), W(" "), W("("), W("("),
               Num(16767765, 6), W(" "), Num(59526408, 6), W(" "), Num(12, 0),
               W(","), W(" "), Num(18441700, 6), W(" "), Num(58594230, 6),
               W(")"), W(")")>>

\* C19: convertWktToWgs84 never fails, and when its input holds no
\* coordinate pair (an empty or malformed geometry) it returns the input
\* unchanged.
C19_ConvertNoErrorPath ==
  fn = "convertWktToWgs84" =>
    /\ ret.st = "ok" /\ ret.err = ""
    /\ NoPair(wktIn) => ret.v = wktIn

C19_Witness ==
  /\ fn = "convertWktToWgs84" /\ ret.st = "ok"
  /\ wktIn = <<W("POLYGON"), W(" "), W("("), W("("),
               Num(7, 0), W(","), W(" "), W("EMPTY"), W(")"), W(")")>>
  /\ ret.v = wktIn

\* ------------------------------------------------------------------------
\* Properties of the fallback's result collection (specification Spec)
\* ------------------------------------------------------------------------

\* The per-area requests of the current call, in the order they were issued.
WktReqs(k) == SelectSeq(reqs[k], LAMBDA q : q.ep = "wkt")

\* C20: in the fallback the geometry fetched for the identifier at position
\* i of the list is the one held at position i of the results, whatever the
\* order in which the fetches complete: there is one result place per
\* identifier, a filled place holds the geometry of its own identifier, and
\* each identifier is requested once, so that no result is lost, duplicated
\* or attributed to another identifier.
C20_ResultsByPosition ==
  \A k \in CallSlots :
    (ClientSideCall(k) /\ path[k] = "fallback") =>
      /\ Len(slots[k]) = Len(call[k].ids)
      /\ \A i \in DOMAIN slots[k] :
           /\ slots[k][i].st = "ok" =>
                slots[k][i].wkt = convertWktToWgs84(UpstreamGeom(call[k].ids[i]))
           /\ slots[k][i].st # "ok" => slots[k][i].wkt = <<>>
      /\ Len(WktReqs(k)) = Cardinality({i \in DOMAIN slots[k] : slots[k][i].st # "queued"})
      /\ \A n \in DOMAIN WktReqs(k) : WktReqs(k)[n] = WktRequest(call[k].ids[n])
      /\ outcome[k].st = "ok" =>
           outcome[k].v = computeExtentClientSide(
                         [i \in DOMAIN call[k].ids |->
                            convertWktToWgs84(UpstreamGeom(call[k].ids[i]))]).v

C20_Witness ==
  \E k \in CallSlots :
    /\ FallbackCall(k) /\ path[k] = "fallback" /\ call[k].ids = <<"A", "B", "A">>
    /\ slots[k][1].st = "inflight" /\ slots[k][2].st = "ok" /\ slots[k][3].st = "inflight"
    /\ slots[k][2].wkt = convertWktToWgs84(UpstreamGeom("B"))

\* C21 (as claimed, for every client): every successful result of
\* getAreasExtent is a WKT string that begins with "POLYGON".
C21_ResultBeginsWithPolygon ==
  \A k \in CallSlots :
    (IsExtentCall(k) /\ outcome[k].st = "ok") => StartsWithPolygon(outcome[k].v)

\* ------------------------------------------------------------------------
\* Properties of the listing and detail tools (specification SpecTools)
\* ------------------------------------------------------------------------
IsListCall(k) == targs[k].handler = "listProtectedAreasHandler"

\* C22 (as claimed): called with none of kommun, lan and namn the handler
\* returns an error result and sends no list request; called with at least
\* one of them it sends the list request, and the count it returns is the
\* number of areas the request returned.
C22_ListValidation_AsClaimed ==
  \A k \in ToolSlots :
    IsListCall(k) =>
      /\ (~targs[k].kommun.def /\ ~targs[k].lan.def /\ ~targs[k].namn.def) =>
           (tres[k].st = "error" /\ fetches[k] = <<>>)
      /\ (targs[k].kommun.def \/ targs[k].lan.def \/ targs[k].namn.def) =>
           /\ Len(fetches[k]) = 1 /\ fetches[k][1].req = listAreasRequest(targs[k])
           /\ tres[k].st = "ok" => tres[k].count = Len(fetches[k][1].answer.v)

\* C22 (amended): an argument that is left out or is the empty string counts
\* as missing. With kommun, lan and namn all missing the handler returns the
\* validation error and sends no list request; with at least one of them
\* non-empty it sends exactly one list request, and once that request has
\* answered it returns count equal to the number of areas returned (or the
\* error of the request).
C22_ListValidation ==
  \A k \in ToolSlots :
    IsListCall(k) =>
      /\ (Falsy(targs[k].kommun) /\ Falsy(targs[k].lan) /\ Falsy(targs[k].namn)) =>
           (tres[k] = ToolError(ValidationError) /\ fetches[k] = <<>> /\ tool[k] = "done")
      /\ ~(Falsy(targs[k].kommun) /\ Falsy(targs[k].lan) /\ Falsy(targs[k].namn)) =>
           /\ Len(fetches[k]) = 1 /\ fetches[k][1].req = listAreasRequest(targs[k])
           /\ tool[k] = "done" =>
                /\ fetches[k][1].st = "ok" =>
                     (tres[k].st = "ok" /\ tres[k].count = Len(fetches[k][1].answer.v)
                      /\ Len(tres[k].areas) = tres[k].count)
                /\ fetches[k][1].st = "failed" => tres[k] = ToolError(ListTransportError)

C22_Witness ==
  \E k \in ToolSlots :
    /\ IsListCall(k) /\ tool[k] = "done"
    /\ targs[k].kommun = Str("") /\ ~targs[k].lan.def /\ targs[k].namn = Str("Tyresta")
    /\ tres[k].st = "ok" /\ tres[k].count = 2

\* The name holds the search text at some position, letter case aside.
NameHolds(name, q) ==
  \E off \in 0..(Len(name) - Len(q)) :
    \A k \in 1..Len(q) : ToLowerChar(name[off + k]) = ToLowerChar(q[k])

\* The name is the search text, letter case aside.
NameIs(name, q) ==
  Len(name) = Len(q) /\ \A k \in 1..Len(q) : ToLowerChar(name[k]) = ToLowerChar(q[k])

SearchDone == hits.fn # "none"

\* C23: searchAndSort(items, query) returns exactly the items whose name
\* contains the query case-insensitively, each of them once (the empty list,
\* and so a count of 0, when there is none), and every item whose name equals
\* the query case-insensitively stands before every item whose name only
\* contains it.
C23_SearchAndSort ==
  SearchDone =>
    LET res == hits.matches
        wanted == {i \in DOMAIN items : NameHolds(items[i].name, query)}
    IN  /\ {res[j] : j \in DOMAIN res} = {items[i] : i \in wanted}
        /\ Len(res) = Cardinality(wanted)
        /\ (wanted = {} => res = <<>>)
        /\ \A j1, j2 \in DOMAIN res :
             (NameIs(res[j1].name, query) /\ ~NameIs(res[j2].name, query)) => j1 < j2
        /\ (hits.fn # "searchAndSort" => hits.count = Cardinality(wanted))

\* A search that left an item out and returned an exact match in front of an
\* item that only contains the text, though the items came in the other order
\* and the exact match is the later one by name.
C23_Witness ==
  /\ hits.fn = "searchAndSort"
  /\ Len(hits.matches) >= 2 /\ Len(hits.matches) < Len(items)
  /\ \E i1, i2 \in DOMAIN items :
       /\ i1 < i2
       /\ NameHolds(items[i1].name, query) /\ ~NameIs(items[i1].name, query)
       /\ NameIs(items[i2].name, query)
       /\ localeCompare(items[i1].name, items[i2].name) < 0
       /\ hits.matches[1] = items[i2]

\* A search that found nothing.
C23_WitnessNone ==
  hits.fn = "lookupCountyHandler" /\ items # <<>> /\ hits.matches = <<>> /\ hits.count = 0


\* ------------------------------------------------------------------------
\* Further properties of the extent clients (specification Spec)
\* ------------------------------------------------------------------------

\* The coordinate pairs of a national-grid WKT, each reprojected once.
OnceOf(wkt) ==
  {<<WgsX(<<q[1].n, q[2].n>>), WgsY(<<q[1].n, q[2].n>>)>> : q \in PairsOf(wkt)}

\* The x values and the y values written in a WKT.
XsOf(wkt) == {q[1] : q \in PairsOf(wkt)}
YsOf(wkt) == {q[2] : q \in PairsOf(wkt)}

\* C26: on every successful path of getAreasExtent (n2000Client,
\* ramsarClient) each upstream national-grid coordinate is reprojected exactly
\* once before it reaches the result.  On the primary path the pairs of the
\* result are the pairs of the upstream answer, each reprojected once.  In
\* the fallback each fetched geometry holds the pairs of the upstream
\* geometry, each reprojected once, and every coordinate of the result is a
\* coordinate of a fetched geometry, carried unchanged through the boxes and
\* the combined box.
C26_ReprojectedOnce ==
  \A k \in CallSlots :
    (FallbackCall(k) /\ outcome[k].st = "ok") =>
      /\ path[k] = "primary" =>
           /\ PairsOf(outcome[k].v) = OnceOf(primary[k].v)
           /\ Len(Matches(outcome[k].v, 1)) = Len(Matches(primary[k].v, 1))
      /\ path[k] = "fallback" =>
           /\ \A i \in DOMAIN slots[k] :
                /\ PairsOf(slots[k][i].wkt) = OnceOf(UpstreamGeom(call[k].ids[i]))
                /\ Len(Matches(slots[k][i].wkt, 1)) = Len(Matches(UpstreamGeom(call[k].ids[i]), 1))
           /\ XsOf(outcome[k].v) \subseteq UNION {XsOf(slots[k][i].wkt) : i \in DOMAIN slots[k]}
           /\ YsOf(outcome[k].v) \subseteq UNION {YsOf(slots[k][i].wkt) : i \in DOMAIN slots[k]}
           /\ XsOf(outcome[k].v) # {}

\* A fallback over two different areas that returned an extent.
C26_Witness ==
  \E k \in CallSlots :
    /\ FallbackCall(k) /\ path[k] = "fallback" /\ outcome[k].st = "ok"
    /\ Len(call[k].ids) >= 2 /\ call[k].ids[1] # call[k].ids[2]
    /\ Cardinality(XsOf(outcome[k].v)) = 2 /\ Cardinality(YsOf(outcome[k].v)) = 2


\* C27: when the fallback of getAreasExtent runs with an empty identifier
\* list no per-area fetch is issued and the call fails with the "empty array"
\* error raised by combineBoundingBoxes; and a getAreasExtent call ends with
\* that error in no other case.
C27_EmptyInputOnlyFromEmptyList ==
  \A k \in CallSlots :
    IsExtentCall(k) =>
      /\ (FallbackCall(k) /\ path[k] = "fallback" /\ Len(call[k].ids) = 0) =>
           /\ WktReqCount(k) = 0 /\ slots[k] = <<>>
           /\ outcome[k] = Res(combineBoundingBoxes(<<>>))
           /\ outcome[k].st = "error" /\ outcome[k].err = EmptyInputError
      /\ (outcome[k].st = "error" /\ outcome[k].err = EmptyInputError) =>
           (FallbackCall(k) /\ path[k] = "fallback" /\ Len(call[k].ids) = 0)

\* The primary request of a call without identifiers failed and the fallback
\* ended with the combiner's error.
C27_Witness ==
  \E k \in CallSlots :
    /\ FallbackCall(k) /\ call[k].ids = <<>> /\ primary[k].st # "none"
    /\ path[k] = "fallback" /\ reqs[k] = <<ExtentRequest(<<>>)>>
    /\ outcome[k].st = "error" /\ outcome[k].err = EmptyInputError


\* The call has got its result: a polygon in WKT, or an error.
Terminated(k) ==
  (outcome[k].st = "ok" /\ StartsWithPolygon(outcome[k].v)) \/ outcome[k].st = "error"

\* C28: if every upstream fetch settles in the end, every getAreasExtent call
\* (n2000Client, ramsarClient) that has started ends with a WKT result or
\* with an error; and a call never holds more than one bulk-extent request
\* nor more per-area requests than identifiers.
C28_CallTerminates ==
  \A k \in CallSlots :
    /\ [](FallbackCall(k) => (ExtentReqCount(k) <= 1 /\ WktReqCount(k) <= Len(call[k].ids)))
    /\ ((FallbackCall(k) /\ pc[k] = "primary") ~> (FallbackCall(k) /\ Terminated(k)))

\* A second call that went through the fallback over three identifiers and
\* ended, one request per identifier issued.
C28_Witness ==
  \E k \in CallSlots :
    /\ FallbackCall(k) /\ calls = 1 /\ Len(call[k].ids) = 3
    /\ path[k] = "fallback" /\ Terminated(k) /\ outcome[k].st = "ok"
    /\ ExtentReqCount(k) = 1 /\ WktReqCount(k) = 3


\* ------------------------------------------------------------------------
\* Properties of the detail tool (specification SpecTools)
\* ------------------------------------------------------------------------
IsDetailCall(k) == targs[k].handler = "getAreaDetailHandler"

\* C29: nvv_get_area_detail with include = 'all' (the default) issues its
\* six fetches in three batches of two: at most 2 fetches are in flight in
\* any state; the fetches started number two, four or six, and those of a
\* later batch are there only when every fetch of the batches before has
\* succeeded; a call none of whose fetches failed returns its result, after
\* six fetches; once a fetch has failed the call has failed.  With a single
\* include type exactly one fetch, of that type, is issued.
C29_DetailBatches ==
  \A k \in ToolSlots :
    IsDetailCall(k) =>
      /\ Cardinality(Pending(fetches[k])) <= 2
      /\ IncludeOf(targs[k]) = "all" =>
           /\ Len(fetches[k]) \in {2, 4, 6}
           /\ \A j \in DOMAIN fetches[k] :
                \A i \in 1..(2 * ((j - 1) \div 2)) : fetches[k][i].st = "ok"
           /\ (tool[k] = "done" /\ \A j \in DOMAIN fetches[k] : fetches[k][j].st = "ok") =>
                (tres[k].st = "ok" /\ Len(fetches[k]) = 6)
           /\ (\E j \in DOMAIN fetches[k] : fetches[k][j].st = "failed") =>
                (tres[k].st = "error" /\ tool[k] = "done")
      /\ IncludeOf(targs[k]) # "all" =>
           /\ Len(fetches[k]) = 1
           /\ fetches[k][1].req.type = IncludeOf(targs[k])

====
